---------------------------- MODULE Spec2Model ----------------------------
(***************************************************************************)
(* A model of the zero-copy parsing layer of svg2b2d: ByteSpan and the     *)
(* span utilities (bspan.h, bspanutil.h), the pull XML scanner             *)
(* (xmlscan.h), the path tokenizer and PathBuilder (pathsegment.h,         *)
(* pathbuilder.h), and the dimension, transform and paint parsers          *)
(* (svgutils.h, svgtypes.h).                                               *)
(*                                                                         *)
(* A byte is a one-character string; the byte 0 is written NUL.  The       *)
(* buffer a span points into is the sequence buf, indexed from 1.  A       *)
(* pointer is an index into buf, the null pointer is 0, and a ByteSpan is  *)
(* a record [fStart, fEnd] with fEnd one past the last byte.  Reading the  *)
(* byte just past the buffer is outside the allocation: its value is the   *)
(* variable oob, chosen freely when the buffer is created.                 *)
(***************************************************************************)
EXTENDS Integers, Sequences, FiniteSets, TLC

VARIABLES
    buf,              \* the bytes of the caller-owned input buffer
    oob,              \* what a read one past the end of buf returns
    xmlDoc,           \* the pieces the XML input was assembled from
    fState,           \* XmlElementIterator::fState
    fSource,          \* XmlElementIterator::fSource
    mark,             \* XmlElementIterator::mark
    fCurrentElement,  \* XmlElementIterator::fCurrentElement
    xmlRet,           \* what the last call of next() returned: "true", "false",
                      \* or "unconstructed" before the constructor has run
    prevSource,       \* fSource.fStart before the last call of next()
    yielded,          \* the elements next() has returned so far, in order
    tokDelims,        \* chunk_token: the delimiter set of the caller's loop
    tokOrig,          \* chunk_token: the span the caller's loop started with
    tokA,             \* chunk_token: the in/out span a
    tokPrev,          \* chunk_token: a before the last call
    tokens,           \* chunk_token: the tokens returned so far, in order
    numIn,            \* the span given to scanNumber / loadSelfFromChunk
    numchunk,         \* scanNumber: the out-parameter numchunk
    nextPart,         \* scanNumber: the span returned
    fValue,           \* SVGDimension::fValue
    fUnits,           \* SVGDimension::fUnits
    numPc,            \* "idle", "start", "scanned" or "loaded"
    pathDoc,          \* the pieces the path data was assembled from
    pathS,            \* tokenizePath: the cursor s
    commands,         \* the vector of PathSegment tokenizePath fills
    segNext,          \* parseCommands: the index of the next segment
    fWorkingPath,     \* PathBuilder::fWorkingPath
    pastNumber,       \* what a read past the end of fNumbers returns
    pathPc,           \* "idle", "tokenize" (at the test of the scan loop),
                      \* "scan" (in its body), "parse", "done" or "fault"
    colDoc,           \* the paint value, or the three hex digits, of the input
    paintIn,          \* the span given to SVGPaint::loadSelfFromChunk
    fRoot,            \* SVGObject::fRoot is not null
    fPaint,           \* SVGPaint::fPaint
    fExplicitNone,    \* SVGPaint::fExplicitNone
    paintIsSet,       \* SVGPaint's SVGVisualProperty::fIsSet
    hexShort,         \* what parseColorHex returned for #rgb, in a sequence
    hexLong,          \* what parseColorHex returned for #rrggbb, likewise
    nameColor,        \* what parseColorName returned, likewise
    colPc,            \* "idle", "start", "loaded" or "fault"
    trDoc,            \* the pieces the transform list was assembled from
    trS,              \* SVGTransform::loadSelfFromChunk: the cursor s
    fTransform,       \* SVGTransform::fTransform
    transformIsSet,   \* SVGTransform's SVGVisualProperty::fIsSet
    strayArgs,        \* what the uninitialized array args holds
    trPc,             \* "idle", "load" or "done"
    utIn,             \* the span a span utility is applied to
    utOp,             \* the utility applied, "none" before the call
    utOut,            \* what the utility returned and what it may read
    propDoc,          \* the attribute value a keyword property loads
    propKind,         \* the attribute the property belongs to
    property,         \* the property: its value and fIsSet
    propPc,           \* "idle", "constructed" or "loaded"
    cssDoc,           \* the pieces the style string was assembled from
    fChunk,           \* CSSInlineStyleIterator::fChunk
    fCurrentName,     \* CSSInlineStyleIterator::fCurrentName
    fCurrentValue,    \* CSSInlineStyleIterator::fCurrentValue
    styleRet,         \* what the last call of next() returned, or "none"
    styleRets,        \* what the calls of next() that moved fChunk returned
    styleAttributes,  \* the attributes of parseStyleAttribute's styleElement
    cssPc,            \* "idle", "iterate", "start", "parse" or "done"
    parses,           \* the two parses that run interleaved
    parseMap          \* parseblpath.h: the static dispatch map parseMap

xmlVars == <<xmlDoc, fState, fSource, mark, fCurrentElement, xmlRet,
             prevSource, yielded>>

tokVars == <<tokDelims, tokOrig, tokA, tokPrev, tokens>>

numVars == <<numIn, numchunk, nextPart, fValue, fUnits, numPc>>

pathVars == <<pathDoc, pathS, commands, segNext, fWorkingPath, pastNumber,
              pathPc>>

colVars == <<colDoc, paintIn, fRoot, fPaint, fExplicitNone, paintIsSet,
             hexShort, hexLong, nameColor, colPc>>

trVars == <<trDoc, trS, fTransform, transformIsSet, strayArgs, trPc>>

utVars == <<utIn, utOp, utOut>>

propVars == <<propDoc, propKind, property, propPc>>

cssVars == <<cssDoc, fChunk, fCurrentName, fCurrentValue, styleRet, styleRets,
             styleAttributes, cssPc>>

parVars == <<parses, parseMap>>

restVars == <<utVars, propVars, cssVars, parVars>>

vars == <<buf, oob, xmlVars, tokVars, numVars, pathVars, colVars, trVars,
          restVars>>

-----------------------------------------------------------------------------
(* Bounds of the model.                                                    *)

\* The longest XML input, in pieces.
MaxPieces == 3

\* The longest document, in pieces, of the runs that check termination.
MaxFairPieces == 2

\* The longest buffer the span utilities are applied to, in bytes.
MaxSpanLen == 3

\* The longest style string, in pieces.
MaxStylePieces == 3

\* The longest document of each of two interleaved parses, in pieces.
MaxInterleavedPieces == 1

\* The longest buffer chunk_token is run on, in bytes.
MaxTokLen == 4

\* The longest buffer scanNumber is run on, in bytes.
MaxNumLen == 3

\* The longest path data, in pieces.
MaxPathPieces == 3

\* The longest transform list, in pieces.
MaxTransformPieces == 3

-----------------------------------------------------------------------------
(* bspan.h: ByteSpan                                                       *)

NUL == "NUL"

Span(s, e) == [fStart |-> s, fEnd |-> e]

\* ByteSpan(): both pointers null.
NullSpan == Span(0, 0)

BufEnd == Len(buf) + 1

WholeBuf == Span(1, BufEnd)

\* The byte at address i.
Mem(i) == IF i >= 1 /\ i <= Len(buf) THEN buf[i] ELSE oob

\* ByteSpan::operator[]: no bounds check.
At(a, i) == Mem(a.fStart + i)

\* ByteSpan::operator*: the zero byte when the span is empty.
Deref(a) == IF a.fStart < a.fEnd THEN Mem(a.fStart) ELSE NUL

\* ByteSpan::operator bool.
NonEmpty(a) == (a.fEnd - a.fStart) > 0

\* chunk_size: fEnd - fStart as a size_t; a negative value here is a huge
\* size_t in the code.
chunk_size(a) == a.fEnd - a.fStart

\* chunk_skip without the clamp to the span's size.
chunk_skip_noclamp(a, n) == Span(a.fStart + n, a.fEnd)

\* chunk_skip: n is compared with the size as an unsigned number.
chunk_skip(a, n) ==
    IF chunk_size(a) >= 0 /\ n > chunk_size(a)
    THEN Span(a.fStart + chunk_size(a), a.fEnd)
    ELSE Span(a.fStart + n, a.fEnd)

\* operator++ / operator++(int).
Inc(a) == chunk_skip(a, 1)

\* The bytes of a span, as a sequence.
Bytes(a) ==
    IF a.fEnd > a.fStart
    THEN [i \in 1..(a.fEnd - a.fStart) |-> Mem(a.fStart + i - 1)]
    ELSE <<>>

\* operator!=(ByteSpan, ByteSpan).
SpanNotEqual(a, b) ==
    \/ chunk_size(a) # chunk_size(b)
    \/ \E i \in 0..(chunk_size(a) - 1) : At(a, i) # At(b, i)

\* operator== of a ByteSpan and a C string, the string given as a sequence.
EqualsCstr(a, lit) ==
    /\ chunk_size(a) = Len(lit)
    /\ \A i \in 1..Len(lit) : At(a, i - 1) = lit[i]

-----------------------------------------------------------------------------
(* bspanutil.h: charsets and span utilities                                *)

\* wspChars(" \r\n\t\f\v"); the vertical tab is not among the model's bytes.
wspChars == {" ", "\r", "\n", "\t", "\f"}

RECURSIVE SkipIn(_, _, _)
\* The first address in [p, e) whose byte is not in S, or e (p when p >= e).
SkipIn(p, e, S) ==
    IF p < e /\ Mem(p) \in S
    THEN CHOOSE r \in {SkipIn(q, e2, S2) :
                          q \in {p + 1}, e2 \in {e}, S2 \in {S}} : TRUE
    ELSE p

RECURSIVE FindIn(_, _, _)
\* The first address in [p, e) whose byte is in S, or e (p when p >= e).
FindIn(p, e, S) ==
    IF p < e /\ Mem(p) \notin S
    THEN CHOOSE r \in {FindIn(q, e2, S2) :
                          q \in {p + 1}, e2 \in {e}, S2 \in {S}} : TRUE
    ELSE p

RECURSIVE SkipBack(_, _, _)
\* The lowest end e' >= s such that every byte of [e', e) is in S.
SkipBack(s, e, S) ==
    IF s < e /\ Mem(e - 1) \in S THEN SkipBack(s, e - 1, S) ELSE e

chunk_ltrim(a, skippable) == Span(SkipIn(a.fStart, a.fEnd, skippable), a.fEnd)

chunk_rtrim(a, skippable) == Span(a.fStart, SkipBack(a.fStart, a.fEnd, skippable))

chunk_trim(a, skippable) ==
    LET s == SkipIn(a.fStart, a.fEnd, skippable)
    IN  Span(s, SkipBack(s, a.fEnd, skippable))

chunk_skip_wsp(a) == chunk_ltrim(a, wspChars)

chunk_subchunk(a, startAt, sz) ==
    IF chunk_size(a) < 0 \/ startAt < chunk_size(a)
    THEN LET s == a.fStart + startAt
         IN  Span(s, IF s + sz < a.fEnd THEN s + sz ELSE a.fEnd)
    ELSE Span(a.fEnd, a.fEnd)

\* chunk_starts_with_cstr, the literal given as a sequence.
chunk_starts_with_cstr(a, lit) == EqualsCstr(chunk_subchunk(a, 0, Len(lit)), lit)

\* chunk_ends_with_char (a "negative" size is a huge size_t, hence > 0).
chunk_ends_with_char(a, b) == chunk_size(a) # 0 /\ Mem(a.fEnd - 1) = b

\* chunk_token: returns the token and the adjusted input span.  The test
\* delims[*tokenEnd] reads the byte at tokenEnd even when tokenEnd == end.
chunk_token(a, delims) ==
    LET tokenEnd == FindIn(a.fStart, a.fEnd, delims)
    IN  [token |-> Span(a.fStart, tokenEnd),
         rest  |-> Span(IF Mem(tokenEnd) \in delims
                        THEN tokenEnd + 1 ELSE tokenEnd, a.fEnd)]

\* What the comment above chunk_find_char describes: the span before the
\* first byte equal to c.
chunk_find_char_preceding(a, c) ==
    Span(a.fStart, FindIn(a.fStart, a.fEnd, {c}))

\* chunk_find_char: the span from the first byte equal to c to the end.
chunk_find_char(a, c) == Span(FindIn(a.fStart, a.fEnd, {c}), a.fEnd)

-----------------------------------------------------------------------------
(* Numbers.  A double is modelled by the decimal it stands for: the record *)
(* [m, e] is m * 10^e, with m not a multiple of 10 unless it is 0 (then    *)
(* e = 0).  The rounding of binary floating point is left out, and the     *)
(* inputs are short enough that no integer of the model overflows.         *)

RECURSIVE Dec(_, _)
Dec(m, e) ==
    IF m = 0 THEN [m |-> 0, e |-> 0]
    ELSE IF m % 10 = 0 THEN Dec(m \div 10, e + 1)
    ELSE [m |-> m, e |-> e]

RECURSIVE Pow10(_)
Pow10(k) == IF k <= 0 THEN 1 ELSE 10 * Pow10(k - 1)

Min(i, j) == IF i <= j THEN i ELSE j

\* a + b
DecAdd(a, b) ==
    Dec(a.m * Pow10(a.e - Min(a.e, b.e)) + b.m * Pow10(b.e - Min(a.e, b.e)),
        Min(a.e, b.e))

\* a * b
DecMul(a, b) == Dec(a.m * b.m, a.e + b.e)

\* a * pow(10.0, k)
DecScale(a, k) == Dec(a.m, a.e + k)

\* -a
DecNeg(a) == Dec(0 - a.m, a.e)

digitChars == {"0", "1", "2", "3", "4", "5", "6", "7", "8", "9"}

\* *s - '0' for a digit byte.
DigitValue(c) ==
    CASE c = "0" -> 0 [] c = "1" -> 1 [] c = "2" -> 2 [] c = "3" -> 3
      [] c = "4" -> 4 [] c = "5" -> 5 [] c = "6" -> 6 [] c = "7" -> 7
      [] c = "8" -> 8 [] c = "9" -> 9

RECURSIVE U64From(_, _, _)
\* chunk_to_u64: its loop from address p with the value v so far.
U64From(p, e, v) ==
    IF p < e /\ Mem(p) \in digitChars
    THEN U64From(p + 1, e, v * 10 + DigitValue(Mem(p)))
    ELSE v

\* chunk_to_u64: the digits at the start of s.
chunk_to_u64(s) == U64From(s.fStart, s.fEnd, 0)

\* chunk_to_i64: an optional '-' and the digits after it.
chunk_to_i64(s) ==
    IF NonEmpty(s) /\ Deref(s) = "-"
    THEN 0 - U64From(s.fStart + 1, s.fEnd, 0)
    ELSE U64From(s.fStart, s.fEnd, 0)

\* *s for the cursor at address p of a span that ends at e.
DerefAt(p, e) == Deref(Span(p, e))

\* scanNumber, exponent: the cursor after the exponent.  The look-ahead s[1]
\* is read without a bounds check.
scanExponent(p, e) ==
    IF DerefAt(p, e) \in {"e", "E"} /\ Mem(p + 1) \notin {"m", "x"}
    THEN SkipIn(IF DerefAt(p + 1, e) \in {"-", "+"} THEN p + 2 ELSE p + 1,
                e, digitChars)
    ELSE p

\* scanNumber, decimal point and fraction part.
scanFraction(p, e) ==
    IF DerefAt(p, e) = "." THEN SkipIn(p + 1, e, digitChars) ELSE p

\* scanNumber, sign and integer part.
scanInteger(p, e) ==
    SkipIn(IF DerefAt(p, e) \in {"-", "+"} THEN p + 1 ELSE p, e, digitChars)

\* scanNumber: numchunk ends where the cursor s stops, and s is returned.
scanNumberTo(inChunk, p) ==
    [numchunk |-> Span(inChunk.fStart, p), rest |-> Span(p, inChunk.fEnd)]

scanNumber(inChunk) ==
    CHOOSE r \in
        {scanNumberTo(inChunk, x) :
            x \in {scanExponent(f, inChunk.fEnd) :
                f \in {scanFraction(i, inChunk.fEnd) :
                    i \in {scanInteger(inChunk.fStart, inChunk.fEnd)}}}} :
        TRUE

\* chunk_to_double, exponent: res times ten to the exponent, the cursor at p.
doubleExponent(res, p, e) ==
    IF DerefAt(p, e) \in {"e", "E"}
    THEN IF DerefAt(p + 1, e) = "+"
         THEN DecScale(res, U64From(p + 2, e, 0))
         ELSE IF DerefAt(p + 1, e) = "-"
         THEN DecScale(res, 0 - U64From(p + 2, e, 0))
         ELSE DecScale(res, U64From(p + 1, e, 0))
    ELSE res

\* chunk_to_double, fraction part: the cursor at p, after the integer part.
doubleFraction(hasIntPart, res, p, e) ==
    IF DerefAt(p, e) = "." /\ DerefAt(p + 1, e) \in digitChars
    THEN doubleExponent(
             DecAdd(res, Dec(U64From(p + 1, e, 0),
                             0 - (SkipIn(p + 1, e, digitChars) - (p + 1)))),
             SkipIn(p + 1, e, digitChars), e)
    ELSE IF ~hasIntPart THEN Dec(0, 0)
    ELSE doubleExponent(res, IF DerefAt(p, e) = "." THEN p + 1 ELSE p, e)

\* chunk_to_double, integer part: the cursor at p, after the sign.
doubleInteger(p, e) ==
    IF DerefAt(p, e) \in digitChars
    THEN doubleFraction(TRUE, Dec(U64From(p, e, 0), 0),
                        SkipIn(p, e, digitChars), e)
    ELSE doubleFraction(FALSE, Dec(0, 0), p, e)

\* chunk_to_double: the value; the cursor it leaves is not used by callers.
chunk_to_double(s) ==
    IF Deref(s) = "+" THEN doubleInteger(s.fStart + 1, s.fEnd)
    ELSE IF Deref(s) = "-" THEN DecNeg(doubleInteger(s.fStart + 1, s.fEnd))
    ELSE doubleInteger(s.fStart, s.fEnd)

\* toNumber: chunk_to_double on a copy of the span.
toNumber(inChunk) == chunk_to_double(inChunk)

\* nextNumber: the value of the next token, and inChunk moved past it.
nextNumberOf(tk) == [v |-> chunk_to_double(tk.token), s |-> tk.rest]

nextNumber(inChunk, delims) ==
    CHOOSE r \in {nextNumberOf(tk) :
                     tk \in {chunk_token(chunk_ltrim(inChunk, wspChars),
                                         delims)}} : TRUE

-----------------------------------------------------------------------------
(* svgutils.h: dimensions                                                  *)

SVG_UNITS_USER == 0
SVG_UNITS_PX == 1
SVG_UNITS_PT == 2
SVG_UNITS_PC == 3
SVG_UNITS_MM == 4
SVG_UNITS_CM == 5
SVG_UNITS_IN == 6
SVG_UNITS_PERCENT == 7
SVG_UNITS_EM == 8
SVG_UNITS_EX == 9

\* parseDimensionUnits: units[1] is read without a bounds check.
parseDimensionUnits(units) ==
    IF ~NonEmpty(units) THEN SVG_UNITS_USER
    ELSE IF At(units, 0) = "p" /\ At(units, 1) = "x" THEN SVG_UNITS_PX
    ELSE IF At(units, 0) = "p" /\ At(units, 1) = "t" THEN SVG_UNITS_PT
    ELSE IF At(units, 0) = "p" /\ At(units, 1) = "c" THEN SVG_UNITS_PC
    ELSE IF At(units, 0) = "m" /\ At(units, 1) = "m" THEN SVG_UNITS_MM
    ELSE IF At(units, 0) = "c" /\ At(units, 1) = "m" THEN SVG_UNITS_CM
    ELSE IF At(units, 0) = "i" /\ At(units, 1) = "n" THEN SVG_UNITS_IN
    ELSE IF At(units, 0) = "%" THEN SVG_UNITS_PERCENT
    ELSE IF At(units, 0) = "e" /\ At(units, 1) = "m" THEN SVG_UNITS_EM
    ELSE IF At(units, 0) = "e" /\ At(units, 1) = "x" THEN SVG_UNITS_EX
    ELSE SVG_UNITS_USER

-----------------------------------------------------------------------------
(* xmlscan.h: XmlElement                                                   *)

XML_ELEMENT_TYPE_INVALID == 0
XML_ELEMENT_TYPE_XMLDECL == 1
XML_ELEMENT_TYPE_CONTENT == 2
XML_ELEMENT_TYPE_SELF_CLOSING == 3
XML_ELEMENT_TYPE_START_TAG == 4
XML_ELEMENT_TYPE_END_TAG == 5
XML_ELEMENT_TYPE_COMMENT == 6
XML_ELEMENT_TYPE_PROCESSING_INSTRUCTION == 7
XML_ELEMENT_TYPE_CDATA == 8
XML_ELEMENT_TYPE_DOCTYPE == 9

XML_ITERATOR_STATE_CONTENT == 0
XML_ITERATOR_STATE_START_TAG == 1

\* An attribute map: a function from names (byte sequences) to value spans.
NoAttributes == [n \in {} |-> NullSpan]

\* XmlElement::clear, and the default-constructed element.
ClearedElement ==
    [fElementKind |-> XML_ELEMENT_TYPE_INVALID, fData |-> NullSpan,
     fName |-> <<>>, fAttributes |-> NoAttributes]

\* clear() with fAttributes.clear() left out.
clearKeepAttributes(slot) ==
    [ClearedElement EXCEPT !.fAttributes = slot.fAttributes]

\* XmlElement::clear on the element slot: kind INVALID, no data, no name,
\* no attributes, whatever the slot held.
clear(slot) == ClearedElement

\* XmlElement::addAttribute: fAttributes[name] = valueChunk.
addAttribute(attrs, name, valueChunk) ==
    [n \in DOMAIN attrs \cup {name} |->
        IF n = name THEN valueChunk ELSE attrs[n]]

\* What scanTagName leaves: the name and the rest of the tag text.
TagName(s1, nameEnd) ==
    [fName |-> Bytes(Span(s1.fStart, nameEnd)),
     fData |-> Span(nameEnd, s1.fEnd)]

\* scanTagName after the leading '/' of an end tag was skipped.
scanTagNameFrom(s1) == TagName(s1, FindIn(s1.fStart, s1.fEnd, wspChars))

\* XmlElement::scanTagName: the name runs from the start of the tag text
\* (after a leading '/') to the first whitespace byte; fData becomes the rest.
scanTagName(data) ==
    IF ~NonEmpty(data)
    THEN [fName |-> <<>>, fData |-> data]
    ELSE scanTagNameFrom(IF Deref(data) = "/" THEN Inc(data) ELSE data)

RECURSIVE scanAttributesLoop(_, _)

\* scanAttributes from the byte after the opening quote: v is the cursor,
\* c the cursor moved to the closing quote (or to the end).  endattrValue
\* stays nullptr when the closing quote is missing; the attribute is added
\* either way.
scanAttrValue(attrs, attrName, v, c) ==
    CHOOSE r \in
        {scanAttributesLoop(s, added) :
            s \in {IF NonEmpty(c) THEN Inc(c) ELSE c},
            added \in {addAttribute(attrs, attrName,
                          Span(v.fStart,
                               IF NonEmpty(c) THEN c.fStart ELSE 0))}} : TRUE

\* scanAttributes at the opening quote q (or at the end of the tag text).
scanAttrQuote(attrs, attrName, q) ==
    IF ~NonEmpty(q) THEN attrs
    ELSE CHOOSE r \in
             {scanAttrValue(attrs, attrName, Inc(q), c) :
                 c \in {Span(FindIn(q.fStart + 1, q.fEnd, {Deref(q)}),
                             q.fEnd)}} : TRUE

\* scanAttributes after chunk_token split the name off at '='.
scanAttrName(attrs, tk) ==
    CHOOSE r \in
        {scanAttrQuote(attrs, attrName, q) :
            attrName \in {Bytes(chunk_trim(tk.token, wspChars))},
            q \in {IF NonEmpty(tk.rest)
                   THEN Span(FindIn(tk.rest.fStart, tk.rest.fEnd,
                                    {"\"", "'"}),
                             tk.rest.fEnd)
                   ELSE tk.rest}} : TRUE

\* scanAttributes after the whitespace before an attribute name.
scanAttrStart(attrs, s1) ==
    IF ~NonEmpty(s1) \/ Deref(s1) = "/" THEN attrs
    ELSE CHOOSE r \in {scanAttrName(attrs, tk) :
                          tk \in {chunk_token(s1, {"="})}} : TRUE

\* The while loop of XmlElement::scanAttributes, from cursor s with the
\* attributes found so far.
scanAttributesLoop(s, attrs) ==
    IF ~NonEmpty(s) THEN attrs
    ELSE CHOOSE r \in {scanAttrStart(attrs, s1) :
                          s1 \in {chunk_ltrim(s, wspChars)}} : TRUE

\* XmlElement::scanAttributes on the element's fData, attrs the element's
\* fAttributes when it is called.
scanAttributes(data, attrs) == scanAttributesLoop(data, attrs)

\* reset() for a start, self-closing or end tag, t the result of scanTagName
\* and cleared the slot after clear().
ElementOfTag(kind, t, autoScanAttr, cleared) ==
    [fElementKind |-> kind, fData |-> t.fData, fName |-> t.fName,
     fAttributes |-> IF autoScanAttr /\ kind # XML_ELEMENT_TYPE_END_TAG
                     THEN scanAttributes(t.fData, cleared.fAttributes)
                     ELSE cleared.fAttributes]

\* XmlElement::reset(kind, data, autoScanAttr) on the element slot: clear()
\* first, then the kind, the data and, for a tag, the name and attributes.
ElementReset(slot, kind, data, autoScanAttr) ==
    IF kind \in {XML_ELEMENT_TYPE_START_TAG, XML_ELEMENT_TYPE_SELF_CLOSING,
                 XML_ELEMENT_TYPE_END_TAG}
    THEN CHOOSE e \in {ElementOfTag(kind, t, autoScanAttr, cleared) :
                          t \in {scanTagName(data)},
                          cleared \in {clear(slot)}} : TRUE
    ELSE [clear(slot) EXCEPT !.fElementKind = kind, !.fData = data]

-----------------------------------------------------------------------------
(* xmlscan.h: XmlElementIterator                                           *)

\* What readTag and readDoctype leave: the element text and fSource.
Read(chunk, source) == [chunk |-> chunk, source |-> source]

\* readTag without its fSource++ steps: the source is left where it was.
readTagAtStay(src, p) ==
    Read(chunk_rtrim(Span(src.fStart, p), wspChars), src)

\* readTag from the '>' found at address p (or the end).
readTagAt(src, p) ==
    Read(chunk_rtrim(Span(src.fStart, p), wspChars), Inc(Span(p, src.fEnd)))

\* readTag: the tag text up to '>' (trailing whitespace removed) and the
\* source moved past the '>'.
readTag(src) == readTagAt(src, FindIn(src.fStart, src.fEnd, {">"}))

\* readDoctype with the source at the first ']' (or at the end).
readDoctypeAt(src, at) ==
    IF Deref(at) = "]" /\ At(at, 1) = ">"
    THEN Read(chunk_rtrim(Span(src.fStart, at.fStart + 1), wspChars),
              Inc(Inc(at)))
    ELSE Read(Span(src.fStart, src.fStart), at)

\* readDoctype: scan to the first ']'; only when it is followed by '>' does
\* the element get a text and the source move past "]>".  fSource[1] is
\* read without a bounds check.
readDoctype(src) ==
    readDoctypeAt(src, Span(FindIn(src.fStart, src.fEnd, {"]"}), src.fEnd))

\* classify with the test of "?" before the test of "?xml".
classifyQuestionFirst(src) ==
    IF chunk_starts_with_cstr(src, <<"?">>)
    THEN XML_ELEMENT_TYPE_PROCESSING_INSTRUCTION
    ELSE IF chunk_starts_with_cstr(src, <<"?", "x", "m", "l">>)
    THEN XML_ELEMENT_TYPE_XMLDECL
    ELSE IF chunk_starts_with_cstr(src, <<"!", "D", "O", "C", "T", "Y", "P", "E">>)
    THEN XML_ELEMENT_TYPE_DOCTYPE
    ELSE IF chunk_starts_with_cstr(src, <<"!", "-", "-">>)
    THEN XML_ELEMENT_TYPE_COMMENT
    ELSE IF chunk_starts_with_cstr(src, <<"!", "[", "C", "D", "A", "T", "A", "[">>)
    THEN XML_ELEMENT_TYPE_CDATA
    ELSE IF chunk_starts_with_cstr(src, <<"/">>)
    THEN XML_ELEMENT_TYPE_END_TAG
    ELSE XML_ELEMENT_TYPE_START_TAG

\* The kind of the element that starts at src, by the bytes after '<'; a
\* start tag is not yet told from a self-closing one.
classify(src) ==
    IF chunk_starts_with_cstr(src, <<"?", "x", "m", "l">>)
    THEN XML_ELEMENT_TYPE_XMLDECL
    ELSE IF chunk_starts_with_cstr(src, <<"?">>)
    THEN XML_ELEMENT_TYPE_PROCESSING_INSTRUCTION
    ELSE IF chunk_starts_with_cstr(src, <<"!", "D", "O", "C", "T", "Y", "P", "E">>)
    THEN XML_ELEMENT_TYPE_DOCTYPE
    ELSE IF chunk_starts_with_cstr(src, <<"!", "-", "-">>)
    THEN XML_ELEMENT_TYPE_COMMENT
    ELSE IF chunk_starts_with_cstr(src, <<"!", "[", "C", "D", "A", "T", "A", "[">>)
    THEN XML_ELEMENT_TYPE_CDATA
    ELSE IF chunk_starts_with_cstr(src, <<"/">>)
    THEN XML_ELEMENT_TYPE_END_TAG
    ELSE XML_ELEMENT_TYPE_START_TAG

\* What next() leaves: the iterator's fields, the element slot, the result.
Step(st, src, mk, elem, ret) ==
    [fState |-> st, fSource |-> src, mark |-> mk, elem |-> elem, ret |-> ret]

\* The end of the START_TAG case: r is what readTag or readDoctype left.
emitTag(kind, r, slot) ==
    Step(XML_ITERATOR_STATE_CONTENT, r.source, r.source,
         ElementReset(slot,
                      IF kind = XML_ELEMENT_TYPE_START_TAG
                         /\ chunk_ends_with_char(r.chunk, "/")
                      THEN XML_ELEMENT_TYPE_SELF_CLOSING ELSE kind,
                      r.chunk, TRUE),
         TRUE)

\* The START_TAG case of next(), entered with source src.
nextStartTag(src, slot) ==
    IF ~NonEmpty(src)
    THEN Step(XML_ITERATOR_STATE_START_TAG, src, src, clear(slot), FALSE)
    ELSE IF classify(src) = XML_ELEMENT_TYPE_DOCTYPE
    THEN CHOOSE e \in {emitTag(XML_ELEMENT_TYPE_DOCTYPE, r, slot) :
                          r \in {readDoctype(src)}} : TRUE
    ELSE CHOOSE e \in {emitTag(kind, r, slot) :
                          kind \in {classify(src)},
                          r \in {readTag(src)}} : TRUE

\* nextContentAt without chunk_trim: the run is returned as it stands.
nextContentAtUntrimmed(at, mk, slot) ==
    IF ~NonEmpty(at)
    THEN Step(XML_ITERATOR_STATE_CONTENT, at, mk, clear(slot), FALSE)
    ELSE IF SpanNotEqual(at, mk)
    THEN Step(XML_ITERATOR_STATE_START_TAG, Inc(at), Inc(at),
              ElementReset(slot, XML_ELEMENT_TYPE_CONTENT,
                           Span(mk.fStart, at.fStart), FALSE),
              TRUE)
    ELSE nextStartTag(Inc(at), slot)

\* The CONTENT case with the source at the '<' found (or at the end).
nextContentAt(at, mk, slot) ==
    IF ~NonEmpty(at)
    THEN Step(XML_ITERATOR_STATE_CONTENT, at, mk, clear(slot), FALSE)
    ELSE IF SpanNotEqual(at, mk)
            /\ NonEmpty(chunk_trim(Span(mk.fStart, at.fStart), wspChars))
    THEN Step(XML_ITERATOR_STATE_START_TAG, Inc(at), Inc(at),
              ElementReset(slot, XML_ELEMENT_TYPE_CONTENT,
                           chunk_trim(Span(mk.fStart, at.fStart), wspChars),
                           FALSE),
              TRUE)
    ELSE nextStartTag(Inc(at), slot)

\* The CONTENT case of next(): fSource++ up to the next '<'; a content run
\* that is not all whitespace is returned, otherwise the tag that follows.
nextContent(src, mk, slot) ==
    CHOOSE e \in
        {nextContentAt(at, mk, slot) :
            at \in {Span(FindIn(src.fStart, src.fEnd, {"<"}), src.fEnd)}} :
        TRUE

\* XmlElementIterator::next from iterator state (st, src, mk) with slot the
\* content of fCurrentElement: the iterator state it leaves, the element
\* slot and the value returned.
next(st, src, mk, slot) ==
    IF ~NonEmpty(src)
    THEN Step(st, src, mk, clear(slot), FALSE)
    ELSE IF st = XML_ITERATOR_STATE_CONTENT THEN nextContent(src, mk, slot)
    ELSE IF st = XML_ITERATOR_STATE_START_TAG THEN nextStartTag(src, slot)
    ELSE Step(st, Span(src.fEnd, src.fEnd), mk, clear(slot), FALSE)

-----------------------------------------------------------------------------
(* pathsegment.h: tokenizePath.  A PathSegment is [fCommand, fNumbers],    *)
(* the command being the command byte.                                     *)

whitespaceChars == {",", "\t", "\n", "\f", "\r", " "}

commandChars == {"m", "M", "l", "L", "h", "H", "v", "V", "c", "C", "q", "Q",
                 "s", "S", "t", "T", "a", "A", "z", "Z"}

leadingChars == digitChars \cup {".", "+", "-"}

\* PathSegment cmd{}; cmd.fCommand = SegmentKind(c).
PathSegment(c) == [fCommand |-> c, fNumbers |-> <<>>]

\* commands.back().addNumber(aNumber), commands not empty.
addNumber(cmds, aNumber) ==
    [cmds EXCEPT ![Len(cmds)].fNumbers = Append(@, aNumber)]

\* What one turn of tokenizePath's loop leaves: the cursor, the segments,
\* and whether it called back() on an empty vector.
Scanned(s, cmds, backOnEmpty) ==
    [s |-> s, commands |-> cmds, backOnEmpty |-> backOnEmpty]

\* The turn after scanNumber has returned r.
tokenizeNumber(r, cmds) ==
    IF ~NonEmpty(r.numchunk) THEN Scanned(r.rest, cmds, FALSE)
    ELSE IF cmds = <<>> THEN Scanned(r.rest, cmds, TRUE)
    ELSE CHOOSE t \in
             {Scanned(r.rest, addNumber(cmds, aNumber), FALSE) :
                 aNumber \in {toNumber(r.numchunk)}} :
             TRUE

\* The turn with the cursor s after the leading separators: a command byte
\* opens a segment, a byte that can start a number is scanned as a number,
\* and on any other byte the cursor stays where it is.
tokenizeAt(s, cmds) ==
    IF Deref(s) \in commandChars
    THEN Scanned(Inc(s), Append(cmds, PathSegment(Deref(s))), FALSE)
    ELSE IF Deref(s) \in leadingChars
    THEN CHOOSE t \in {tokenizeNumber(r, cmds) : r \in {scanNumber(s)}} :
             TRUE
    ELSE Scanned(s, cmds, FALSE)

\* One turn of the while (s) loop of tokenizePath.
tokenizeTurn(s, cmds) ==
    CHOOSE t \in
        {tokenizeAt(at, cmds) :
            at \in {Span(SkipIn(s.fStart, s.fEnd, whitespaceChars),
                         s.fEnd)}} :
        TRUE

-----------------------------------------------------------------------------
(* pathbuilder.h: PathBuilder.  The BLPath fWorkingPath is the sequence of *)
(* the primitives asked of it, each [op, args, seg]: seg is the index of   *)
(* the segment that asked.  The path takes every primitive it is asked.    *)

Point(x, y) == [x |-> x, y |-> y]

Primitive(op, args, seg) == [op |-> op, args |-> args, seg |-> seg]

RECURSIVE LastMoveTo(_, _)
\* The vertex of the last moveTo among path[1..n], (0, 0) without one.
LastMoveTo(path, n) ==
    IF n = 0 THEN Point(Dec(0, 0), Dec(0, 0))
    ELSE IF path[n].op = "moveTo"
    THEN Point(path[n].args[1], path[n].args[2])
    ELSE LastMoveTo(path, n - 1)

\* PathBuilder::lastPosition: BLPoint apoint{}; getLastVertex(&apoint).  An
\* empty path leaves (0, 0); after a close the vertex is the start of the
\* closed figure; otherwise it is the end point of the last primitive.
lastPosition(path) ==
    IF path = <<>> THEN Point(Dec(0, 0), Dec(0, 0))
    ELSE IF path[Len(path)].op = "close" THEN LastMoveTo(path, Len(path))
    ELSE Point(path[Len(path)].args[Len(path[Len(path)].args) - 1],
               path[Len(path)].args[Len(path[Len(path)].args)])

\* cmd.fNumbers[i], i counted from 0: std::vector::operator[] does not
\* check i, and a read at or past size() returns whatever lies there.
Number(cmd, i, past) ==
    IF i < Len(cmd.fNumbers) THEN cmd.fNumbers[i + 1] ELSE past

\* radians(a) = a * 0.017453292519943295, the factor cut to 8 digits.
radians(a) == DecMul(a, Dec(17453293, -9))

\* a > 0.5f
OverHalf(a) == DecAdd(a, Dec(-5, -1)).m > 0

\* The number of numbers one primitive of command c takes.
Arity(c) ==
    CASE c \in {"M", "m", "L", "l", "T", "t"} -> 2
      [] c \in {"H", "h", "V", "v"} -> 1
      [] c \in {"Q", "q", "S", "s"} -> 4
      [] c \in {"C", "c"} -> 6
      [] c \in {"A", "a"} -> 7
      [] OTHER -> 0

\* The BLPath call the body of command c makes.
PrimitiveOf(c) ==
    CASE c \in {"M", "m"} -> "moveTo"
      [] c \in {"L", "l", "H", "h", "V", "v"} -> "lineTo"
      [] c \in {"Q", "q"} -> "quadTo"
      [] c \in {"T", "t"} -> "smoothQuadTo"
      [] c \in {"C", "c"} -> "cubicTo"
      [] c \in {"S", "s"} -> "smoothCubicTo"
      [] c \in {"A", "a"} -> "ellipticArcTo"

\* The arguments command c passes for the numbers at i, i+1, ..., with P
\* the value of lastPosition() and past what a read past the end returns.
ArgumentsOf(c, cmd, i, P, past) ==
    CASE c \in {"M", "L", "T"} ->
           <<Number(cmd, i, past), Number(cmd, i + 1, past)>>
      [] c \in {"m", "l", "t"} ->
           <<DecAdd(P.x, Number(cmd, i, past)),
             DecAdd(P.y, Number(cmd, i + 1, past))>>
      [] c = "H" -> <<Number(cmd, i, past), P.y>>
      [] c = "h" -> <<DecAdd(P.x, Number(cmd, i, past)), P.y>>
      [] c = "V" -> <<P.x, Number(cmd, i, past)>>
      [] c = "v" -> <<P.x, DecAdd(P.y, Number(cmd, i, past))>>
      [] c \in {"Q", "S"} ->
           <<Number(cmd, i, past), Number(cmd, i + 1, past),
             Number(cmd, i + 2, past), Number(cmd, i + 3, past)>>
      [] c \in {"q", "s"} ->
           <<DecAdd(P.x, Number(cmd, i, past)),
             DecAdd(P.y, Number(cmd, i + 1, past)),
             DecAdd(P.x, Number(cmd, i + 2, past)),
             DecAdd(P.y, Number(cmd, i + 3, past))>>
      [] c = "C" ->
           <<Number(cmd, i, past), Number(cmd, i + 1, past),
             Number(cmd, i + 2, past), Number(cmd, i + 3, past),
             Number(cmd, i + 4, past), Number(cmd, i + 5, past)>>
      [] c = "c" ->
           <<DecAdd(P.x, Number(cmd, i, past)),
             DecAdd(P.y, Number(cmd, i + 1, past)),
             DecAdd(P.x, Number(cmd, i + 2, past)),
             DecAdd(P.y, Number(cmd, i + 3, past)),
             DecAdd(P.x, Number(cmd, i + 4, past)),
             DecAdd(P.y, Number(cmd, i + 5, past))>>
      [] c = "A" ->
           <<Number(cmd, i, past), Number(cmd, i + 1, past),
             radians(Number(cmd, i + 2, past)),
             OverHalf(Number(cmd, i + 3, past)),
             OverHalf(Number(cmd, i + 4, past)),
             Number(cmd, i + 5, past), Number(cmd, i + 6, past)>>
      [] c = "a" ->
           <<Number(cmd, i, past), Number(cmd, i + 1, past),
             radians(Number(cmd, i + 2, past)),
             OverHalf(Number(cmd, i + 3, past)),
             OverHalf(Number(cmd, i + 4, past)),
             DecAdd(P.x, Number(cmd, i + 5, past)),
             DecAdd(P.y, Number(cmd, i + 6, past))>>

\* One BLPath call of command c for the numbers from index i on.
Issue(c, cmd, seg, i, path, past) ==
    Append(path, Primitive(PrimitiveOf(c),
                           ArgumentsOf(c, cmd, i, lastPosition(path), past),
                           seg))

RECURSIVE Extended(_, _, _, _, _, _)
\* for (i = ...; i < cmd.fNumbers.size(); i += arity): one more call of
\* command c per turn, whether or not all its numbers exist.
Extended(c, cmd, seg, i, path, past) ==
    IF i < Len(cmd.fNumbers)
    THEN Extended(c, cmd, seg, i + Arity(c),
                  Issue(c, cmd, seg, i, path, past), past)
    ELSE path

\* The arity check left out: no segment is rejected.
RejectedNever(cmd, arity) == FALSE

\* if (cmd.fNumbers.size() < arity) return;
Rejected(cmd, arity) == Len(cmd.fNumbers) < arity

\* The shape shared by the commands other than M, m, Z and z: reject a
\* short segment, issue the first primitive, then the extended ones.
Command(c, cmd, seg, path, past) ==
    IF Rejected(cmd, Arity(c)) THEN path
    ELSE Extended(c, cmd, seg, Arity(c),
                  Issue(c, cmd, seg, 0, path, past), past)

\* SVG M: a moveTo, then absolute lineTo for the further pairs.
moveTo(cmd, seg, path, past) ==
    IF Rejected(cmd, 2) THEN path
    ELSE Extended("L", cmd, seg, 2, Issue("M", cmd, seg, 0, path, past), past)

\* SVG m: a moveTo from lastPosition(), then lineTo, each from the
\* lastPosition() of that moment.
moveBy(cmd, seg, path, past) ==
    IF Rejected(cmd, 2) THEN path
    ELSE Extended("l", cmd, seg, 2, Issue("m", cmd, seg, 0, path, past), past)

lineTo(cmd, seg, path, past) == Command("L", cmd, seg, path, past)

lineBy(cmd, seg, path, past) == Command("l", cmd, seg, path, past)

hLineTo(cmd, seg, path, past) == Command("H", cmd, seg, path, past)

hLineBy(cmd, seg, path, past) == Command("h", cmd, seg, path, past)

vLineTo(cmd, seg, path, past) == Command("V", cmd, seg, path, past)

vLineBy(cmd, seg, path, past) == Command("v", cmd, seg, path, past)

quadTo(cmd, seg, path, past) == Command("Q", cmd, seg, path, past)

quadBy(cmd, seg, path, past) == Command("q", cmd, seg, path, past)

smoothQuadTo(cmd, seg, path, past) == Command("T", cmd, seg, path, past)

smoothQuadBy(cmd, seg, path, past) == Command("t", cmd, seg, path, past)

cubicTo(cmd, seg, path, past) == Command("C", cmd, seg, path, past)

cubicBy(cmd, seg, path, past) == Command("c", cmd, seg, path, past)

smoothCubicTo(cmd, seg, path, past) == Command("S", cmd, seg, path, past)

smoothCubicBy(cmd, seg, path, past) == Command("s", cmd, seg, path, past)

arcTo(cmd, seg, path, past) == Command("A", cmd, seg, path, past)

arcBy(cmd, seg, path, past) == Command("a", cmd, seg, path, past)

\* SVG Z, z: close the path unless it is empty.
close(cmd, seg, path) ==
    IF path # <<>> THEN Append(path, Primitive("close", <<>>, seg)) ELSE path

\* The switch of PathBuilder::parseCommands for one segment.
parseCommand(cmd, seg, path, past) ==
    CASE cmd.fCommand = "M" -> moveTo(cmd, seg, path, past)
      [] cmd.fCommand = "m" -> moveBy(cmd, seg, path, past)
      [] cmd.fCommand = "L" -> lineTo(cmd, seg, path, past)
      [] cmd.fCommand = "l" -> lineBy(cmd, seg, path, past)
      [] cmd.fCommand = "H" -> hLineTo(cmd, seg, path, past)
      [] cmd.fCommand = "h" -> hLineBy(cmd, seg, path, past)
      [] cmd.fCommand = "V" -> vLineTo(cmd, seg, path, past)
      [] cmd.fCommand = "v" -> vLineBy(cmd, seg, path, past)
      [] cmd.fCommand = "C" -> cubicTo(cmd, seg, path, past)
      [] cmd.fCommand = "c" -> cubicBy(cmd, seg, path, past)
      [] cmd.fCommand = "S" -> smoothCubicTo(cmd, seg, path, past)
      [] cmd.fCommand = "s" -> smoothCubicBy(cmd, seg, path, past)
      [] cmd.fCommand = "Q" -> quadTo(cmd, seg, path, past)
      [] cmd.fCommand = "q" -> quadBy(cmd, seg, path, past)
      [] cmd.fCommand = "T" -> smoothQuadTo(cmd, seg, path, past)
      [] cmd.fCommand = "t" -> smoothQuadBy(cmd, seg, path, past)
      [] cmd.fCommand = "A" -> arcTo(cmd, seg, path, past)
      [] cmd.fCommand = "a" -> arcBy(cmd, seg, path, past)
      [] cmd.fCommand \in {"Z", "z"} -> close(cmd, seg, path)
      [] OTHER -> path

-----------------------------------------------------------------------------
(* svgtypes.h: colours and paint.  A BLRgba32 is [r, g, b, a].             *)

Rgba(r, g, b, a) == [r |-> r, g |-> g, b |-> b, a |-> a]

hexChars == digitChars \cup {"a", "b", "c", "d", "e", "f",
                             "A", "B", "C", "D", "E", "F"}

\* The value of a hex digit.
HexValue(c) ==
    CASE c \in digitChars -> DigitValue(c)
      [] c \in {"a", "A"} -> 10 [] c \in {"b", "B"} -> 11
      [] c \in {"c", "C"} -> 12 [] c \in {"d", "D"} -> 13
      [] c \in {"e", "E"} -> 14 [] c \in {"f", "F"} -> 15

\* copy_to_cstr(str, len, a): the first len bytes of a (the model's bytes
\* hold no zero byte, so the string is all of them).
copy_to_cstr(len, a) ==
    IF chunk_size(a) < len THEN Bytes(a)
    ELSE Bytes(Span(a.fStart, a.fStart + len))

\* How many hex digits a %wx conversion takes from str at position p.
HexRun(str, p, w) ==
    CHOOSE n \in 0..w :
        /\ \A i \in 0..(n - 1) : p + i <= Len(str) /\ str[p + i] \in hexChars
        /\ n = w \/ p + n > Len(str) \/ str[p + n] \notin hexChars

RECURSIVE HexNumber(_, _, _)
\* The value of the n hex digits of str from position p.
HexNumber(str, p, n) ==
    IF n = 0 THEN 0
    ELSE HexNumber(str, p, n - 1) * 16 + HexValue(str[p + n - 1])

\* What sscanf returns and has stored in r, g, b.
Matched(n, r, g, b) == [n |-> n, r |-> r, g |-> g, b |-> b]

\* sscanf(str, "#%wx%wx%wx", &r, &g, &b) from the third conversion on.
sscanfBlue(str, w, r, g, p) ==
    IF HexRun(str, p, w) = 0 THEN Matched(2, r, g, 0)
    ELSE Matched(3, r, g, HexNumber(str, p, HexRun(str, p, w)))

\* ... from the second conversion on.
sscanfGreen(str, w, r, p) ==
    IF HexRun(str, p, w) = 0 THEN Matched(1, r, 0, 0)
    ELSE sscanfBlue(str, w, r, HexNumber(str, p, HexRun(str, p, w)),
                    p + HexRun(str, p, w))

\* sscanf(str, "#%wx%wx%wx", &r, &g, &b): each conversion takes one to w
\* hex digits (white space, a sign or a 0x prefix, which %x also takes,
\* are not among the bytes of the model's colour values).
sscanfHex(str, w) ==
    IF str = <<>> \/ str[1] # "#" \/ HexRun(str, 2, w) = 0
    THEN Matched(0, 0, 0, 0)
    ELSE sscanfGreen(str, w, HexNumber(str, 2, HexRun(str, 2, w)),
                     2 + HexRun(str, 2, w))

\* A channel of the one-digit form with the digit taken as the high
\* nibble only.
ShiftedNibble(v) == v * 16

\* r * 17: a channel of the one-digit form.
DoubledNibble(v) == v * 17

\* parseColorHex on the string copied from the chunk.
parseColorHexStr(str) ==
    IF sscanfHex(str, 2).n = 3
    THEN Rgba(sscanfHex(str, 2).r, sscanfHex(str, 2).g, sscanfHex(str, 2).b,
              255)
    ELSE IF sscanfHex(str, 1).n = 3
    THEN Rgba(DoubledNibble(sscanfHex(str, 1).r),
              DoubledNibble(sscanfHex(str, 1).g),
              DoubledNibble(sscanfHex(str, 1).b), 255)
    ELSE Rgba(128, 128, 128, 255)

parseColorHex(chunk) == parseColorHexStr(copy_to_cstr(63, chunk))

\* (float)chunk_to_double of the number at the start of the chunk:
\* toDimension(inChunk).value().
toDimensionValue(inChunk) == chunk_to_double(scanNumber(inChunk).numchunk)

\* The integer part of a, as the conversion to an integer type takes it.
DecTrunc(a) ==
    IF a.e >= 0 THEN a.m * Pow10(a.e)
    ELSE IF a.m >= 0 THEN a.m \div Pow10(0 - a.e)
    ELSE 0 - ((0 - a.m) \div Pow10(0 - a.e))

\* The double parseColorRGB converts to uint8_t for channel i of the list.
ChannelDouble(num, i) ==
    IF NonEmpty(chunk_find_char(num, "%"))
    THEN DecMul(DecScale(toDimensionValue(num), -2), Dec(255, 0))
    ELSE IF i = 3 THEN DecMul(toDimensionValue(num), Dec(255, 0))
    ELSE toDimensionValue(num)

\* What the loop of parseColorRGB has done: the channels stored in
\* rgbi[0..3], how many entries it went through, and whether it did
\* something undefined: a store past rgbi[3], or the conversion to uint8_t
\* of a value outside 0..255.
Channels(rgbi, i, undefined) ==
    [rgbi |-> rgbi, i |-> i, undefined |-> undefined]

RECURSIVE rgbLoop(_, _, _)
\* while (num) { rgbi[i] = ...; i++; num = chunk_token(nums, ","); } entered
\* with tk what the last chunk_token returned and left of nums.
rgbLoop(tk, i, done) ==
    IF ~NonEmpty(tk.token) THEN Channels(done.rgbi, i, done.undefined)
    ELSE rgbLoop(chunk_token(tk.rest, {","}), i + 1,
                 Channels(IF i < 4
                          THEN [done.rgbi EXCEPT
                                   ![i + 1] = DecTrunc(ChannelDouble(tk.token, i))]
                          ELSE done.rgbi,
                          i,
                          \/ done.undefined
                          \/ i >= 4
                          \/ DecTrunc(ChannelDouble(tk.token, i)) \notin 0..255))

\* return of parseColorRGB after the loop.
rgbResult(ch) ==
    [c |-> IF ch.i = 4
           THEN Rgba(ch.rgbi[1], ch.rgbi[2], ch.rgbi[3], ch.rgbi[4])
           ELSE Rgba(ch.rgbi[1], ch.rgbi[2], ch.rgbi[3], 255),
     undefined |-> ch.undefined]

\* parseColorRGB with tk the first chunk_token(nums, ",").
rgbFirst(tk) ==
    IF chunk_size(tk.token) < 1
    THEN [c |-> Rgba(128, 128, 128, 0), undefined |-> FALSE]
    ELSE rgbResult(rgbLoop(tk, 0, Channels(<<0, 0, 0, 0>>, 0, FALSE)))

\* parseColorRGB: the text between '(' and ')' split at ','.
parseColorRGB(inChunk) ==
    rgbFirst(chunk_token(
                 chunk_token(chunk_token(inChunk, {"("}).rest, {")"}).token,
                 {","}))

\* svg::colors, the table of named colours: lowercase CSS colour names
\* with their RGBA values.
colors ==
    (<<"r", "e", "d">> :> Rgba(255, 0, 0, 255)) @@ (<<"b", "l", "u", "e">> :> Rgba(0, 0, 255, 255))
    @@ (<<"g", "r", "a", "y">> :> Rgba(128, 128, 128, 255)) @@ (<<"t", "a", "n">> :> Rgba(210, 180, 140, 255))

\* parseColorName on the name copied from the chunk.
parseColorNameStr(cName) ==
    IF cName \notin DOMAIN colors THEN Rgba(128, 128, 128, 255)
    ELSE colors[cName]

parseColorName(inChunk) == parseColorNameStr(Bytes(inChunk))

\* An SVGPaint as loadSelfFromChunk leaves it: fPaint, fExplicitNone, fIsSet,
\* and whether something undefined was done on the way.
Paint(c, explicitNone, isSet, undefined) ==
    [fPaint |-> c, fExplicitNone |-> explicitNone, fIsSet |-> isSet,
     undefined |-> undefined]

\* The nodes of the document that have an id, with their variants:
\* IMapSVGNodes::findNodeById and SVGObject::getVariant.
findNodeById == (<<"p">> :> Rgba(1, 2, 3, 255))

\* loadFromUrl from the id on, with root whether fRoot is not null.
loadFromUrlId(id, P, root) ==
    IF ~NonEmpty(id) THEN P
    ELSE IF root /\ Bytes(id) \in DOMAIN findNodeById
    THEN [P EXCEPT !.fPaint = findNodeById[Bytes(id)], !.fIsSet = TRUE]
    ELSE P

\* The mark before the id is skipped: a '.' or a '#'.
urlSkipMark(id) == IF Deref(id) \in {".", "#"} THEN Inc(id) ELSE id

\* SVGPaint::loadFromUrl: the id is what stands between '(' and ')'.
loadFromUrl(inChunk, P, root) ==
    loadFromUrlId(
        urlSkipMark(chunk_trim(
            chunk_token(chunk_token(inChunk, {"("}).rest, {")"}).token,
            wspChars)),
        P, root)

\* The rgb( branch of loadSelfFromChunk with r what parseColorRGB returned.
paintOfRGB(r, P) ==
    [P EXCEPT !.fPaint = r.c, !.fIsSet = TRUE, !.undefined = r.undefined]

\* The branch of a bare name with the fallback left out: a name the table
\* does not hold leaves the paint as it is.
paintOfNameNoFallback(cName, P) ==
    IF cName = <<"n", "o", "n", "e">>
    THEN [P EXCEPT !.fExplicitNone = TRUE, !.fIsSet = TRUE]
    ELSE IF cName \in DOMAIN colors
    THEN [P EXCEPT !.fPaint = colors[cName], !.fIsSet = TRUE]
    ELSE P

\* The last branch of loadSelfFromChunk: a bare name.
paintOfName(cName, P) ==
    IF cName = <<"n", "o", "n", "e">>
    THEN [P EXCEPT !.fExplicitNone = TRUE, !.fIsSet = TRUE]
    ELSE IF cName \in DOMAIN colors
    THEN [P EXCEPT !.fPaint = colors[cName], !.fIsSet = TRUE]
    ELSE [P EXCEPT !.fPaint = Rgba(128, 128, 128, 255), !.fIsSet = TRUE]

\* SVGPaint::loadSelfFromChunk after fPaint has been assigned BLRgba32{}.
paintDispatch(str, P, root) ==
    IF chunk_size(str) >= 1 /\ Deref(str) = "#"
    THEN [P EXCEPT !.fPaint = parseColorHex(str), !.fIsSet = TRUE]
    ELSE IF \/ chunk_starts_with_cstr(str, <<"r", "g", "b", "(">>)
            \/ chunk_starts_with_cstr(str, <<"r", "g", "b", "a", "(">>)
    THEN paintOfRGB(parseColorRGB(str), P)
    ELSE IF chunk_starts_with_cstr(str, <<"u", "r", "l", "(">>)
    THEN loadFromUrl(str, P, root)
    ELSE paintOfName(Bytes(str), P)

\* SVGPaint::loadSelfFromChunk on an SVGPaint with the flags given.
paintLoadSelfFromChunk(inChunk, explicitNone, isSet, root) ==
    paintDispatch(inChunk, Paint(Rgba(0, 0, 0, 0), explicitNone, isSet, FALSE),
                  root)

-----------------------------------------------------------------------------
(* svgtypes.h: the keyword properties.  A property is the value its        *)
(* constructor or loadSelfFromChunk left and SVGVisualProperty::fIsSet.    *)

Property(value, isSet) == [value |-> value, fIsSet |-> isSet]

\* SVGFillRule::loadSelfFromChunk
fillRuleLoadSelfFromChunk(inChunk, P) ==
    LET s == chunk_trim(inChunk, wspChars)
    IN  IF EqualsCstr(s, <<"n", "o", "n", "z", "e", "r", "o">>)
        THEN Property("BL_FILL_RULE_NON_ZERO", TRUE)
        ELSE IF EqualsCstr(s, <<"e", "v", "e", "n", "o", "d", "d">>)
        THEN Property("BL_FILL_RULE_EVEN_ODD", TRUE)
        ELSE Property(P.value, FALSE)

\* SVGStrokeLineCap::loadSelfFromChunk
strokeLineCapLoadSelfFromChunk(inChunk, P) ==
    LET s == chunk_trim(inChunk, wspChars)
    IN  IF EqualsCstr(s, <<"b", "u", "t", "t">>)
        THEN Property("BL_STROKE_CAP_BUTT", TRUE)
        ELSE IF EqualsCstr(s, <<"r", "o", "u", "n", "d">>)
        THEN Property("BL_STROKE_CAP_ROUND", TRUE)
        ELSE IF EqualsCstr(s, <<"s", "q", "u", "a", "r", "e">>)
        THEN Property("BL_STROKE_CAP_SQUARE", TRUE)
        ELSE Property(P.value, FALSE)

\* SVGStrokeLineJoin::loadSelfFromChunk
strokeLineJoinLoadSelfFromChunk(inChunk, P) ==
    LET s == chunk_trim(inChunk, wspChars)
    IN  IF EqualsCstr(s, <<"m", "i", "t", "e", "r">>)
        THEN Property("BL_STROKE_JOIN_MITER_BEVEL", TRUE)
        ELSE IF EqualsCstr(s, <<"r", "o", "u", "n", "d">>)
        THEN Property("BL_STROKE_JOIN_ROUND", TRUE)
        ELSE IF EqualsCstr(s, <<"b", "e", "v", "e", "l">>)
        THEN Property("BL_STROKE_JOIN_BEVEL", TRUE)
        ELSE IF EqualsCstr(s, <<"m", "i", "t", "e", "r", "-", "c", "l", "i", "p">>)
        THEN Property("BL_STROKE_JOIN_MITER_CLIP", TRUE)
        ELSE Property(P.value, FALSE)

-----------------------------------------------------------------------------
(* css.h: CSSInlineStyleIterator, and svgtypes.h: parseStyleAttribute      *)

\* The iterator after a call of next(), with what the call returned.
StyleIterator(chunk, name, value, ret) ==
    [fChunk |-> chunk, fCurrentName |-> name, fCurrentValue |-> value,
     ret |-> ret]

\* chunk_token(fChunk, charset(";")) with the delimiter left in the source.
tokenOfPairKeepDelimiter(chunk) ==
    [token |-> chunk_token(chunk, {";"}).token,
     rest |-> Span(chunk_token(chunk, {";"}).token.fEnd, chunk.fEnd)]

\* chunk_token(fChunk, charset(";")): nextValue and the fChunk it leaves.
tokenOfPair(chunk) == chunk_token(chunk, {";"})

\* next() from the first chunk_token on: pair is what it returned.
styleNextOfPair(pair) ==
    LET named == CHOOSE r \in {chunk_token(pair.token, {":"})} : TRUE
        name == CHOOSE r \in {chunk_trim(named.token, wspChars)} : TRUE
        value == CHOOSE r \in {chunk_trim(named.rest, wspChars)} : TRUE
    IN  StyleIterator(pair.rest, name, value, NonEmpty(name) /\ NonEmpty(value))

\* CSSInlineStyleIterator::next() on an iterator whose fChunk is chunk.
styleNext(chunk) ==
    LET skipped == CHOOSE r \in {chunk_skip_wsp(chunk)} : TRUE
    IN  IF NonEmpty(skipped)
        THEN CHOOSE r \in {styleNextOfPair(p) : p \in {tokenOfPair(skipped)}} : TRUE
        ELSE StyleIterator(skipped, NullSpan, NullSpan, FALSE)

\* The body of the loop of parseStyleAttribute; it is the iterator after
\* a call of next() that returned true.
styleAddAttribute(attrs, it) ==
    IF Bytes(it.fCurrentName) # <<>> /\ NonEmpty(it.fCurrentValue)
    THEN addAttribute(attrs, Bytes(it.fCurrentName), it.fCurrentValue)
    ELSE attrs

-----------------------------------------------------------------------------
(* parseblpath.h: parsePath and its dispatch map parseMap.  A BLPath is    *)
(* the sequence of the primitives asked of it.                             *)

\* SegmentCommand::INVALID, the command of a parse that has seen no
\* command letter yet.
INVALID == "INVALID"

\* The name of the function the initializer of parseMap gives a command.
parseFunctionOf(c) ==
    CASE c = "M" -> "parseMoveTo"
      [] c = "m" -> "parseMoveBy"
      [] c = "L" -> "parseLineTo"
      [] c = "l" -> "parseLineBy"
      [] c = "H" -> "parseHLineTo"
      [] c = "h" -> "parseHLineBy"
      [] c = "V" -> "parseVLineTo"
      [] c = "v" -> "parseVLineBy"
      [] c = "C" -> "parseCubicTo"
      [] c = "c" -> "parseCubicBy"
      [] c = "S" -> "parseSmoothCubicTo"
      [] c = "s" -> "parseSmoothCubicBy"
      [] c = "Q" -> "parseQuadTo"
      [] c = "q" -> "parseQuadBy"
      [] c = "T" -> "parseSmoothQuadTo"
      [] c = "t" -> "parseSmoothQuadBy"
      [] c = "A" -> "parseArcTo"
      [] c = "a" -> "parseArcBy"
      [] c \in {"Z", "z"} -> "parseClose"

\* parseMap as its initializer leaves it: the twenty command letters.
InitialParseMap == [c \in commandChars |-> parseFunctionOf(c)]

\* std::map::operator[]: a key the map does not hold is inserted with a
\* value-initialized std::function, one that holds no target.
mapIndex(map, key) ==
    IF key \in DOMAIN map THEN map
    ELSE [k \in DOMAIN map \cup {key} |-> IF k = key THEN "" ELSE map[k]]

\* parseNextNumber after the number has been scanned.
parseNextNumberOf(r) ==
    IF ~NonEmpty(r.numchunk)
    THEN [found |-> FALSE, x |-> Dec(0, 0), s |-> r.rest]
    ELSE CHOOSE q \in {[found |-> TRUE, x |-> v, s |-> r.rest] :
                          v \in {toNumber(r.numchunk)}} : TRUE

\* parseNextNumber(s, x): whether a number was found, the number, the
\* cursor after it.
parseNextNumber(s) ==
    CHOOSE q \in
        {parseNextNumberOf(r) :
            r \in {scanNumber(at) :
                      at \in {chunk_ltrim(s, whitespaceChars)}}} : TRUE

\* What a parse function leaves: its return value, the cursor, the path and
\* the iteration count.
Parsed(ret, s, apath, iteration) ==
    [ret |-> ret, s |-> s, apath |-> apath, iteration |-> iteration]

\* The two numbers found, or the first one missing, or the second.
NumberPair(first, second) ==
    IF ~first.found
    THEN [found |-> FALSE, x |-> first.x, y |-> Dec(0, 0), s |-> first.s]
    ELSE [found |-> second.found, x |-> first.x, y |-> second.x,
          s |-> second.s]

\* The second parseNextNumber of a parse function, after the first.
parseNumberSecond(first) ==
    IF ~first.found THEN NumberPair(first, first)
    ELSE CHOOSE q \in {NumberPair(first, second) :
                          second \in {parseNextNumber(first.s)}} : TRUE

\* The pair of numbers at the front of s, the second looked for only when
\* the first was found.
parseNumberPair(s) ==
    CHOOSE q \in {parseNumberSecond(first) :
                     first \in {parseNextNumber(s)}} : TRUE

\* A parse function of two numbers after its parseNextNumber calls: the
\* primitive op is asked of the path when both were found.
pairParsed(xy, op, apath, iteration) ==
    IF ~xy.found THEN Parsed(FALSE, xy.s, apath, iteration)
    ELSE Parsed(TRUE, xy.s,
                Append(apath, [op |-> op, args |-> <<xy.x, xy.y>>]),
                iteration + 1)

\* parseMoveTo
parseMoveTo(s, apath, iteration) ==
    CHOOSE q \in
        {pairParsed(xy, IF iteration = 0 THEN "moveTo" ELSE "lineTo",
                    apath, iteration) :
            xy \in {parseNumberPair(s)}} : TRUE

\* parseLineTo
parseLineTo(s, apath, iteration) ==
    CHOOSE q \in {pairParsed(xy, "lineTo", apath, iteration) :
                     xy \in {parseNumberPair(s)}} : TRUE

\* parseClose
parseClose(s, apath, iteration) ==
    Parsed(TRUE, s, Append(apath, [op |-> "close", args |-> <<>>]), iteration)

\* The state of one call of parsePath: the cursor s, currentCommand,
\* iteration, the path, and what the call did: "running", "true", "false"
\* or "bad_function_call".
PathParse(s, currentCommand, iteration, apath, ret) ==
    [s |-> s, currentCommand |-> currentCommand, iteration |-> iteration,
     apath |-> apath, ret |-> ret]

\* A parse and the dispatch map after a step of the parse.
Stepped(parse, map) == [parse |-> parse, map |-> map]

\* The call of the parse function named target.  The functions of the
\* commands M, L, Z and z are modelled.
parseFunctionCall(target, s, apath, iteration) ==
    CASE target = "parseMoveTo" -> parseMoveTo(s, apath, iteration)
      [] target = "parseLineTo" -> parseLineTo(s, apath, iteration)
      [] target = "parseClose" -> parseClose(s, apath, iteration)

\* if (!parseMap[currentCommand](s, apath, iteration)) return false; with
\* r what the function returned.
parsePathAfter(r, currentCommand) ==
    PathParse(r.s, currentCommand, r.iteration, r.apath,
              IF r.ret THEN "running" ELSE "false")

\* parseMap[currentCommand](s, apath, iteration) and the test of what it
\* returns; calling a std::function without a target throws
\* std::bad_function_call.
parsePathCall(target, s, currentCommand, iteration, apath) ==
    IF target = ""
    THEN PathParse(s, currentCommand, iteration, apath, "bad_function_call")
    ELSE CHOOSE q \in
             {parsePathAfter(r, currentCommand) :
                 r \in {parseFunctionCall(target, s, apath, iteration)}} :
             TRUE

\* parsePath from the test of commandChars on, with the map as
\* operator[] leaves it: s is not empty.
parsePathIndexed(s, currentCommand, iteration, apath, indexed) ==
    CHOOSE q \in
        {Stepped(called, indexed) :
            called \in {parsePathCall(indexed[currentCommand], s,
                                      currentCommand, iteration, apath)}} :
        TRUE

parsePathDispatch(s, currentCommand, iteration, apath, map) ==
    CHOOSE q \in
        {parsePathIndexed(s, currentCommand, iteration, apath, indexed) :
            indexed \in {mapIndex(map, currentCommand)}} : TRUE

\* parsePath after the whitespace has been skipped.
parsePathAt(s, p, map) ==
    IF ~NonEmpty(s)
    THEN Stepped(PathParse(s, p.currentCommand, p.iteration, p.apath, "true"),
                 map)
    ELSE IF Deref(s) \in commandChars
    THEN parsePathDispatch(Inc(s), Deref(s), 0, p.apath, map)
    ELSE parsePathDispatch(s, p.currentCommand, p.iteration, p.apath, map)

\* One turn of the while (s) loop of parsePath, or its end.
parsePathTurn(p, map) ==
    IF ~NonEmpty(p.s)
    THEN Stepped(PathParse(p.s, p.currentCommand, p.iteration, p.apath,
                           "true"), map)
    ELSE CHOOSE q \in
             {parsePathAt(at, p, map) :
                 at \in {chunk_ltrim(p.s, whitespaceChars)}} : TRUE

-----------------------------------------------------------------------------
(* svgtypes.h: transforms.  A BLMatrix2D is [m00, m01, m10, m11, m20, m21] *)
(* and maps the point (x, y) to (x*m00 + y*m10 + m20, x*m01 + y*m11 + m21).*)

Matrix(m00, m01, m10, m11, m20, m21) ==
    [m00 |-> m00, m01 |-> m01, m10 |-> m10, m11 |-> m11, m20 |-> m20,
     m21 |-> m21]

\* BLMatrix2D::reset(): the identity.
Identity == Matrix(Dec(1, 0), Dec(0, 0), Dec(0, 0), Dec(1, 0), Dec(0, 0),
                   Dec(0, 0))

\* The matrix that maps a point as a does and then as b does.
MatMul(a, b) ==
    Matrix(DecAdd(DecMul(a.m00, b.m00), DecMul(a.m01, b.m10)),
           DecAdd(DecMul(a.m00, b.m01), DecMul(a.m01, b.m11)),
           DecAdd(DecMul(a.m10, b.m00), DecMul(a.m11, b.m10)),
           DecAdd(DecMul(a.m10, b.m01), DecMul(a.m11, b.m11)),
           DecAdd(DecAdd(DecMul(a.m20, b.m00), DecMul(a.m21, b.m10)), b.m20),
           DecAdd(DecAdd(DecMul(a.m20, b.m01), DecMul(a.m21, b.m11)), b.m21))

\* BLMatrix2D::mapPoint
mapPoint(m, x, y) ==
    Point(DecAdd(DecAdd(DecMul(x, m.m00), DecMul(y, m.m10)), m.m20),
          DecAdd(DecAdd(DecMul(x, m.m01), DecMul(y, m.m11)), m.m21))

\* BLMatrix2D::transform(m): m is applied to a point before this.
transform(this, m) == MatMul(m, this)

\* BLMatrix2D::translate(x, y): the translation is applied before this.
translate(this, x, y) ==
    CHOOSE r \in
        {MatMul(m, this) :
            m \in {Matrix(Dec(1, 0), Dec(0, 0), Dec(0, 0), Dec(1, 0), x, y)}} :
        TRUE

\* BLMatrix2D::scale(x, y): the scaling is applied before this.
scale(this, x, y) ==
    CHOOSE r \in
        {MatMul(m, this) :
            m \in {Matrix(x, Dec(0, 0), Dec(0, 0), y, Dec(0, 0), Dec(0, 0))}} :
        TRUE

\* sin and cos of the angles the inputs hold, as the rounding of the
\* doubles lets them be told.
Sin(a) ==
    CASE a = Dec(0, 0) -> Dec(0, 0)
      [] a = radians(Dec(90, 0)) -> Dec(1, 0)
      [] a = radians(Dec(-90, 0)) -> Dec(-1, 0)

Cos(a) ==
    CASE a = Dec(0, 0) -> Dec(1, 0)
      [] a = radians(Dec(90, 0)) -> Dec(0, 0)
      [] a = radians(Dec(-90, 0)) -> Dec(0, 0)

\* tan, likewise.
Tan(a) ==
    CASE a = Dec(0, 0) -> Dec(0, 0)
      [] a = radians(Dec(45, 0)) -> Dec(1, 0)
      [] a = radians(Dec(-45, 0)) -> Dec(-1, 0)

\* The rotation by the angle with cosine c and sine s about (x, y).
rotation(c, s, x, y) ==
    Matrix(c, s, DecNeg(s), c,
           DecAdd(DecAdd(x, DecNeg(DecMul(x, c))), DecMul(y, s)),
           DecAdd(DecAdd(y, DecNeg(DecMul(x, s))), DecNeg(DecMul(y, c))))

\* BLMatrix2D::rotate(angle, x, y): the rotation about (x, y) is applied
\* before this.
rotate(this, angle, x, y) ==
    CHOOSE r \in
        {MatMul(m, this) :
            m \in {rotation(c, s, cx, cy) :
                      c \in {Cos(angle)}, s \in {Sin(angle)},
                      cx \in {x}, cy \in {y}}} : TRUE

\* BLMatrix2D::resetToSkewing(x, y)
resetToSkewing(x, y) ==
    Matrix(Dec(1, 0), Tan(y), Tan(x), Dec(1, 0), Dec(0, 0), Dec(0, 0))

\* What parseTransformArgs returns: the span s, and the numbers it has
\* stored in args[0 .. na-1].
Args(s, stored) == [s |-> s, stored |-> stored]

RECURSIVE argsLoop(_, _, _)
\* while (item) { if (na >= maxNa) break; args[na++] = nextNumber(...); }
argsLoop(item, maxNa, stored) ==
    IF ~NonEmpty(item) \/ Len(stored) >= maxNa THEN stored
    ELSE CHOOSE r \in {argsLoop(nn.s, maxNa, Append(stored, nn.v)) :
                          nn \in {nextNumber(item, wspChars \cup {","})}} :
             TRUE

\* parseTransformArgs from the search for ')' on: from is the span after the
\* '(' and s what chunk_find_char returned.
argsClose(from, s, maxNa) ==
    IF ~NonEmpty(s) THEN Args(s, <<>>)
    ELSE Args(Inc(s), argsLoop(Span(from.fStart, s.fStart), maxNa, <<>>))

\* parseTransformArgs from the '(' on.
argsOpen(s, maxNa) ==
    IF ~NonEmpty(s) THEN Args(s, <<>>)
    ELSE CHOOSE r \in {argsClose(Inc(s), closing, maxNa) :
                          closing \in {chunk_find_char(Inc(s), ")")}} : TRUE

parseTransformArgs(inChunk, maxNa) ==
    CHOOSE r \in {argsOpen(s, maxNa) : s \in {chunk_find_char(inChunk, "(")}} :
        TRUE

\* The array args after parseTransformArgs: the numbers stored, and then
\* what the array held before.
ArgsArray(stored, before) ==
    [i \in 1..Len(before) |->
        IF i <= Len(stored) THEN stored[i] ELSE before[i]]

\* What a parse function returns: the span s, and the matrix it leaves in
\* its second parameter.
ParsedEntry(s, m) == [s |-> s, m |-> m]

Zeros(n) == [i \in 1..n |-> Dec(0, 0)]

\* parseMatrix after parseTransformArgs.
matrixOf(r) ==
    IF Len(r.stored) # 6 THEN ParsedEntry(r.s, Identity)
    ELSE ParsedEntry(r.s, Matrix(r.stored[1], r.stored[2], r.stored[3],
                                 r.stored[4], r.stored[5], r.stored[6]))

parseMatrix(inMatrix) ==
    CHOOSE e \in {matrixOf(r) : r \in {parseTransformArgs(inMatrix, 6)}} :
        TRUE

\* parseTranslate after parseTransformArgs; args is not initialized.
translateOf(r, xform, uninit) ==
    ParsedEntry(r.s,
                translate(xform, ArgsArray(r.stored, uninit)[1],
                          IF Len(r.stored) = 1 THEN Dec(0, 0)
                          ELSE ArgsArray(r.stored, uninit)[2]))

parseTranslate(inChunk, xform, uninit) ==
    CHOOSE e \in {translateOf(r, xform, uninit) :
                     r \in {parseTransformArgs(inChunk, 2)}} : TRUE

\* parseScale after parseTransformArgs; args starts as zeros.
scaleOf(r, xform) ==
    ParsedEntry(r.s,
                scale(xform, ArgsArray(r.stored, Zeros(2))[1],
                      IF Len(r.stored) = 1 THEN r.stored[1]
                      ELSE ArgsArray(r.stored, Zeros(2))[2]))

parseScale(inChunk, xform) ==
    CHOOSE e \in {scaleOf(r, xform) :
                     r \in {parseTransformArgs(inChunk, 2)}} : TRUE

\* parseSkewX after parseTransformArgs; args is not initialized.
skewXOf(r, uninit) ==
    ParsedEntry(r.s,
                resetToSkewing(radians(ArgsArray(r.stored, uninit)[1]),
                               Dec(0, 0)))

parseSkewX(inChunk, uninit) ==
    CHOOSE e \in {skewXOf(r, SubSeq(uninit, 1, 1)) :
                     r \in {parseTransformArgs(inChunk, 1)}} : TRUE

\* parseSkewY after parseTransformArgs; args starts as zero.
skewYOf(r) ==
    ParsedEntry(r.s,
                resetToSkewing(Dec(0, 0),
                               radians(ArgsArray(r.stored, Zeros(1))[1])))

parseSkewY(inChunk) ==
    CHOOSE e \in {skewYOf(r) : r \in {parseTransformArgs(inChunk, 1)}} : TRUE

\* parseRotate after parseTransformArgs; args starts as zeros.
rotateOf(r, xform) ==
    ParsedEntry(r.s,
                rotate(xform, radians(ArgsArray(r.stored, Zeros(3))[1]),
                       IF Len(r.stored) = 1 THEN Dec(0, 0)
                       ELSE ArgsArray(r.stored, Zeros(3))[2],
                       IF Len(r.stored) = 1 THEN Dec(0, 0)
                       ELSE ArgsArray(r.stored, Zeros(3))[3]))

parseRotate(inChunk, xform) ==
    CHOOSE e \in {rotateOf(r, xform) :
                     r \in {parseTransformArgs(inChunk, 3)}} : TRUE

\* What one turn of the loop of loadSelfFromChunk leaves: the cursor s,
\* fTransform, and whether set(true) was called.
Turned(s, m, isSet) == [s |-> s, fTransform |-> m, set |-> isSet]

\* s = parseMatrix(s, tm); fTransform = tm; set(true);
matrixEntry(r, this) ==
    CHOOSE t \in {Turned(e.s, e.m, TRUE) : e \in {r}} : TRUE

\* s = parse...(s, tm); fTransform.transform(tm); set(true);
transformEntry(r, this) ==
    CHOOSE t \in {Turned(e.s, transform(this, e.m), TRUE) : e \in {r}} : TRUE

\* The last branch without its s++.
skipNothing(s) == s

\* else { s++; }: a byte that starts no recognized function is skipped.
skipUnrecognized(s) == Inc(s)

\* The body of the loop of loadSelfFromChunk after chunk_skip_wsp; tm is
\* the identity when an entry is parsed.
transformDispatch(s, this, uninit) ==
    IF chunk_starts_with_cstr(s, <<"m", "a", "t", "r", "i", "x">>)
    THEN matrixEntry(parseMatrix(s), this)
    ELSE IF chunk_starts_with_cstr(s, <<"t", "r", "a", "n", "s", "l", "a", "t", "e">>)
    THEN transformEntry(parseTranslate(s, Identity, uninit), this)
    ELSE IF chunk_starts_with_cstr(s, <<"s", "c", "a", "l", "e">>)
    THEN transformEntry(parseScale(s, Identity), this)
    ELSE IF chunk_starts_with_cstr(s, <<"r", "o", "t", "a", "t", "e">>)
    THEN transformEntry(parseRotate(s, Identity), this)
    ELSE IF chunk_starts_with_cstr(s, <<"s", "k", "e", "w", "X">>)
    THEN transformEntry(parseSkewX(s, uninit), this)
    ELSE IF chunk_starts_with_cstr(s, <<"s", "k", "e", "w", "Y">>)
    THEN transformEntry(parseSkewY(s), this)
    ELSE Turned(skipUnrecognized(s), this, FALSE)

\* One turn of the while (s) loop of SVGTransform::loadSelfFromChunk.
transformTurn(s, this, uninit) ==
    CHOOSE t \in {transformDispatch(skipped, this, uninit) :
                     skipped \in {chunk_skip_wsp(s)}} : TRUE

-----------------------------------------------------------------------------
(* A component that a specification does not exercise stays idle.          *)

XmlIdle ==
    /\ xmlDoc = <<>>
    /\ fState = XML_ITERATOR_STATE_CONTENT
    /\ fSource = NullSpan
    /\ mark = NullSpan
    /\ fCurrentElement = ClearedElement
    /\ xmlRet = "unconstructed"
    /\ yielded = <<>>
    /\ prevSource = 1

TokIdle ==
    /\ tokDelims = {}
    /\ tokOrig = NullSpan
    /\ tokA = NullSpan
    /\ tokPrev = NullSpan
    /\ tokens = <<>>

NumIdle ==
    /\ numIn = NullSpan
    /\ numchunk = NullSpan
    /\ nextPart = NullSpan
    /\ fValue = Dec(0, 0)
    /\ fUnits = SVG_UNITS_USER
    /\ numPc = "idle"

PathIdle ==
    /\ pathDoc = <<>>
    /\ pathS = NullSpan
    /\ commands = <<>>
    /\ segNext = 1
    /\ fWorkingPath = <<>>
    /\ pastNumber = Dec(0, 0)
    /\ pathPc = "idle"

ColIdle ==
    /\ colDoc = <<>>
    /\ paintIn = NullSpan
    /\ fRoot = FALSE
    /\ fPaint = Rgba(0, 0, 0, 0)
    /\ fExplicitNone = FALSE
    /\ paintIsSet = FALSE
    /\ hexShort = <<>>
    /\ hexLong = <<>>
    /\ nameColor = <<>>
    /\ colPc = "idle"

TrIdle ==
    /\ trDoc = <<>>
    /\ trS = NullSpan
    /\ fTransform = Identity
    /\ transformIsSet = FALSE
    /\ strayArgs = <<Dec(0, 0), Dec(0, 0)>>
    /\ trPc = "idle"

\* What a span utility leaves: the span it returns (for scanNumber the
\* span numchunk), the cursor or in/out span after the call, the number,
\* the truth value or the byte it returns, and the addresses it may read.
Result(span, left, value, flag, byte, mayRead) ==
    [span |-> span, left |-> left, value |-> value, flag |-> flag,
     byte |-> byte, mayRead |-> mayRead]

NoResult == Result(NullSpan, NullSpan, Dec(0, 0), FALSE, NUL, {})

UtIdle ==
    /\ utIn = NullSpan
    /\ utOp = "none"
    /\ utOut = NoResult

PropIdle ==
    /\ propDoc = <<>>
    /\ propKind = "none"
    /\ property = Property("none", FALSE)
    /\ propPc = "idle"

CssIdle ==
    /\ cssDoc = <<>>
    /\ fChunk = NullSpan
    /\ fCurrentName = NullSpan
    /\ fCurrentValue = NullSpan
    /\ styleRet = "none"
    /\ styleRets = <<>>
    /\ styleAttributes = NoAttributes
    /\ cssPc = "idle"

ParIdle ==
    /\ parses = <<>>
    /\ parseMap = InitialParseMap

RestIdle == UtIdle /\ PropIdle /\ CssIdle /\ ParIdle

-----------------------------------------------------------------------------
(* XML inputs: a document is a sequence of at most MaxPieces pieces.  Each *)
(* piece is given with the elements a conforming scanner yields for it:    *)
(* kind, tag name, attributes as <<name, value>> pairs, and the text of a  *)
(* content run.                                                            *)

Expect(kind, name, attrs, text) ==
    [kind |-> kind, name |-> name, attrs |-> attrs, text |-> text]

XmlPieceBytes(id) ==
    CASE id = 1 -> <<"<", "a", " ", "x", "=", "\"", "1", "\"", ">">>
      [] id = 2 -> <<"<", "b", "/", ">">>
      [] id = 3 -> <<"t", "e", "x", "t", "<", "/", "a", ">">>
      [] id = 4 -> <<"<", "c", " ", "y", "=", "'", "2", "'", " ", "/", ">">>
      [] id = 5 -> <<" ", "<", "d", ">", " ", "<", "/", "d", ">">>
      [] id = 6 -> <<"<", "!", "D", "O", "C", "T", "Y", "P", "E", " ", "f", "o",
                     "o", " ", "[", " ", "<", "!", "E", "N", "T", "I", "T", "Y",
                     " ", "a", " ", "\"", "b", "\"", ">", " ", "]", ">">>
      [] id = 7 -> <<"<", "!", "D", "O", "C", "T", "Y", "P", "E", " ", "f", "o",
                     "o", " ", "[", " ", "<", "!", "E", "N", "T", "I", "T", "Y",
                     " ", "a", " ", "\"", "]", "\"", ">", " ", "]", ">">>
      [] id = 8 -> <<"<", "!", "-", "-", " ", "x", " ", "-", "-", ">">>
      [] id = 9 -> <<"<", "e", " ", "f", "=", "\"", "1">>
      [] id = 10 -> <<"<", "!", "D", "O", "C", "T", "Y", "P", "E", " ", "s", ">">>
      [] id = 11 -> <<"<", "?", "x", "m", "l", "?", ">", "<", "?", "p", "?", ">">>
      [] id = 12 -> <<"<", "!", "[", "C", "D", "A", "T", "A", "[", "x", "]", "]",
                      ">", " ", "y", " ", "<", "g", "/", " ", ">">>

XmlPieceExpect(id) ==
    CASE id = 1 -> <<Expect(XML_ELEMENT_TYPE_START_TAG, <<"a">>,
                            {<< <<"x">>, <<"1">> >>}, <<>>)>>
      [] id = 2 -> <<Expect(XML_ELEMENT_TYPE_SELF_CLOSING, <<"b">>, {}, <<>>)>>
      [] id = 3 -> <<Expect(XML_ELEMENT_TYPE_CONTENT, <<>>, {},
                            <<"t", "e", "x", "t">>),
                     Expect(XML_ELEMENT_TYPE_END_TAG, <<"a">>, {}, <<>>)>>
      [] id = 4 -> <<Expect(XML_ELEMENT_TYPE_SELF_CLOSING, <<"c">>,
                            {<< <<"y">>, <<"2">> >>}, <<>>)>>
      [] id = 5 -> <<Expect(XML_ELEMENT_TYPE_START_TAG, <<"d">>, {}, <<>>),
                     Expect(XML_ELEMENT_TYPE_END_TAG, <<"d">>, {}, <<>>)>>
      [] OTHER  -> <<>>

\* Pieces that are a whole element: a self-closing tag, or a start tag and
\* its end tag with white space around them.
WholeElementPieces == {2, 4, 5}

\* A well-formed document made of start tags with attributes, self-closing
\* tags, text and end tags: one whole element, or <a x="1"> ... text</a>
\* around whole elements.
WellFormedPlain(ids) ==
    \/ Len(ids) = 1 /\ ids[1] \in WholeElementPieces
    \/ /\ Len(ids) >= 2
       /\ ids[1] = 1
       /\ ids[Len(ids)] = 3
       /\ \A k \in 2..(Len(ids) - 1) : ids[k] \in WholeElementPieces

\* DOCTYPE declarations with an internal subset.
SubsetDoctypePieces == {6, 7}

XmlPieces == 1..12

XmlDocs == UNION {[1..n -> XmlPieces] : n \in 1..MaxPieces}

RECURSIVE Concat(_, _)
\* The bytes of the pieces ids[1..n].
Concat(ids, n) ==
    IF n = 0 THEN <<>> ELSE Concat(ids, n - 1) \o XmlPieceBytes(ids[n])

RECURSIVE ExpectedElements(_, _)
\* The elements expected of the pieces ids[1..n].
ExpectedElements(ids, n) ==
    IF n = 0 THEN <<>>
    ELSE ExpectedElements(ids, n - 1) \o XmlPieceExpect(ids[n])

\* The address at which piece k of the document starts.
PieceStart(ids, k) == Len(Concat(ids, k - 1)) + 1

\* What the caller sees of an element: kind, name, attributes and, for a
\* content run, its text.
Seen(el) ==
    [kind  |-> el.fElementKind,
     name  |-> el.fName,
     attrs |-> {<<n, Bytes(el.fAttributes[n])>> : n \in DOMAIN el.fAttributes},
     text  |-> IF el.fElementKind = XML_ELEMENT_TYPE_CONTENT
               THEN Bytes(el.fData) ELSE <<>>]

\* What a read past the end of the buffer may return.
OobBytes == {NUL, ">"}

\* The input buffer exists and the iterator's members hold their default
\* initializers: the constructor has not run yet.
XmlInit ==
    /\ xmlDoc \in XmlDocs
    /\ buf = Concat(xmlDoc, Len(xmlDoc))
    /\ oob \in OobBytes
    /\ fState = XML_ITERATOR_STATE_CONTENT
    /\ fSource = NullSpan
    /\ mark = NullSpan
    /\ fCurrentElement = ClearedElement
    /\ xmlRet = "unconstructed"
    /\ yielded = <<>>
    /\ prevSource = 1
    /\ TokIdle
    /\ NumIdle
    /\ PathIdle
    /\ ColIdle
    /\ TrIdle
    /\ RestIdle

\* XmlElementIterator(inChunk): sets fSource, mark and fState and calls
\* next() once.
XmlConstruct ==
    /\ xmlRet = "unconstructed"
    /\ \E r \in {next(XML_ITERATOR_STATE_CONTENT, WholeBuf, WholeBuf,
                        fCurrentElement)} :
           /\ fState' = r.fState
           /\ fSource' = r.fSource
           /\ mark' = r.mark
           /\ fCurrentElement' = r.elem
           /\ xmlRet' = IF r.ret THEN "true" ELSE "false"
           /\ yielded' = IF r.ret THEN <<r.elem>> ELSE <<>>
    /\ prevSource' = 1
    /\ UNCHANGED <<buf, oob, xmlDoc, tokVars, numVars, pathVars, colVars, trVars,
                   restVars>>

\* One call of next() that yields an element.
XmlNextElement ==
    /\ xmlRet # "unconstructed"
    /\ \E r \in {next(fState, fSource, mark, fCurrentElement)} :
           /\ r.ret
           /\ fState' = r.fState
           /\ fSource' = r.fSource
           /\ mark' = r.mark
           /\ fCurrentElement' = r.elem
           /\ xmlRet' = "true"
           /\ yielded' = Append(yielded, r.elem)
    /\ prevSource' = fSource.fStart
    /\ UNCHANGED <<buf, oob, xmlDoc, tokVars, numVars, pathVars, colVars, trVars,
                   restVars>>

\* One call of next() that finds the source exhausted.
XmlNextEnd ==
    /\ xmlRet # "unconstructed"
    /\ \E r \in {next(fState, fSource, mark, fCurrentElement)} :
           /\ ~r.ret
           /\ fState' = r.fState
           /\ fSource' = r.fSource
           /\ mark' = r.mark
           /\ fCurrentElement' = r.elem
           /\ xmlRet' = "false"
    /\ prevSource' = fSource.fStart
    /\ UNCHANGED <<buf, oob, xmlDoc, yielded, tokVars, numVars, pathVars,
                   colVars, trVars,
                   restVars>>

XmlNext == XmlConstruct \/ XmlNextElement \/ XmlNextEnd

SpecXml == XmlInit /\ [][XmlNext]_vars

\* The caller's loop calls next() again as long as a call can change
\* anything: while (iter.next()) ... and the bool conversion of the
\* iterator.
XmlInitFair == XmlInit /\ Len(xmlDoc) <= MaxFairPieces

SpecXmlFair == XmlInitFair /\ [][XmlNext]_vars /\ WF_vars(XmlNext)

-----------------------------------------------------------------------------
(* Properties of the XML scanner.                                          *)

\* What the caller has seen of the elements yielded so far.
SeenSoFar == [i \in 1..Len(yielded) |-> Seen(yielded[i])]

\* C1: for a well-formed document of start tags with attributes,
\* self-closing tags, text and end tags, the elements yielded are, in
\* order, exactly the expected ones (right kind, tag name and attribute
\* map; one element per tag and per text run that is not all white space),
\* and the iterator is exhausted only after the last of them;
\* <a x="1"><b/>text</a> is the document <<1, 2, 3>>.
C1_YieldsExpectedElements ==
    WellFormedPlain(xmlDoc) =>
        /\ Len(yielded) <= Len(ExpectedElements(xmlDoc, Len(xmlDoc)))
        /\ \A i \in 1..Len(yielded) :
               SeenSoFar[i] = ExpectedElements(xmlDoc, Len(xmlDoc))[i]
        /\ xmlRet = "false" =>
               Len(yielded) = Len(ExpectedElements(xmlDoc, Len(xmlDoc)))

\* C2: when the element just yielded is the Doctype that starts at a
\* DOCTYPE piece with an internal subset, its data runs through the ']' of
\* the closing "]>" of that declaration and the source resumes right after
\* the "]>".
C2_DoctypeThroughMatchingClose ==
    \A k \in 1..Len(xmlDoc) :
        ( /\ xmlDoc[k] \in SubsetDoctypePieces
          /\ xmlRet = "true"
          /\ fCurrentElement.fElementKind = XML_ELEMENT_TYPE_DOCTYPE
          /\ fCurrentElement.fData.fStart = PieceStart(xmlDoc, k) + 1 )
        => /\ fCurrentElement.fData.fEnd = PieceStart(xmlDoc, k + 1) - 1
           /\ fSource.fStart = PieceStart(xmlDoc, k + 1)

\* C10: once the iterator is constructed, the start of the unconsumed
\* source is never before where it was before the last call of next() and
\* never past the end of the input; the data span of every yielded element
\* lies inside the input and begins at or after the end of the data span of
\* the element yielded before it.
C10_SourceMonotoneDataOrdered ==
    /\ xmlRet # "unconstructed" =>
           /\ prevSource <= fSource.fStart
           /\ fSource.fStart <= BufEnd
           /\ fSource.fEnd = BufEnd
    /\ \A i \in 1..Len(yielded) :
           /\ 1 <= yielded[i].fData.fStart
           /\ yielded[i].fData.fStart <= yielded[i].fData.fEnd
           /\ yielded[i].fData.fEnd <= BufEnd
           /\ i > 1 => yielded[i - 1].fData.fEnd <= yielded[i].fData.fStart

\* C10 witness: three elements were yielded, the last call of next() moved
\* the source, and the source has reached the end of the input.
C10_Witness ==
    /\ Len(yielded) >= 3
    /\ prevSource < fSource.fStart
    /\ fSource.fStart = BufEnd

\* C12: whatever calls of next() came before on the reused element slot,
\* the attribute map of the current element is non-empty only when its
\* kind is START_TAG or SELF_CLOSING, and it is exactly the map that
\* scanning the element's own data from an empty map gives: no attribute of
\* an element yielded before is left in it.
C12_AttributesOfCurrentElementOnly ==
    /\ fCurrentElement.fAttributes # NoAttributes =>
           fCurrentElement.fElementKind \in
               {XML_ELEMENT_TYPE_START_TAG, XML_ELEMENT_TYPE_SELF_CLOSING}
    /\ fCurrentElement.fElementKind \in
           {XML_ELEMENT_TYPE_START_TAG, XML_ELEMENT_TYPE_SELF_CLOSING} =>
           fCurrentElement.fAttributes =
               scanAttributes(fCurrentElement.fData, NoAttributes)

\* C12 witness: the slot held a start tag with the attribute x, then an
\* element without attributes, and now holds a tag with the attribute y
\* alone.
C12_Witness ==
    /\ Len(yielded) >= 3
    /\ DOMAIN yielded[1].fAttributes = {<<"x">>}
    /\ yielded[2].fAttributes = NoAttributes
    /\ xmlRet = "true"
    /\ DOMAIN fCurrentElement.fAttributes = {<<"y">>}

\* C11: every call of next() that returns true has consumed at least one
\* byte of the source; on every input, well-formed or not, a call of next()
\* eventually returns false with the current element cleared (kind
\* INVALID), and from then on every call returns false and leaves the
\* element cleared.
C11_NextConsumesUntilExhausted ==
    /\ [](xmlRet = "true" => prevSource < fSource.fStart)
    /\ <>(xmlRet = "false")
    /\ [](xmlRet = "false" =>
            [](xmlRet = "false" /\ fCurrentElement = ClearedElement))

\* C11 witness: on a document that ends in the unterminated tag, next()
\* has returned false after yielding elements, and a further call found
\* the source where the call before had left it.
C11_Witness ==
    /\ xmlDoc[Len(xmlDoc)] = 9
    /\ Len(yielded) >= 2
    /\ xmlRet = "false"
    /\ fCurrentElement.fElementKind = XML_ELEMENT_TYPE_INVALID
    /\ prevSource = BufEnd

\* The value spans of the attribute maps of el.
AttributeValues(el) == {el.fAttributes[n] : n \in DOMAIN el.fAttributes}

\* C21: every value span scanAttributes has stored in the attribute map of
\* a yielded element has its start at or before its end and lies inside
\* the tag's data span; an attribute whose value has no closing quote, as
\* f has in <e f="1, is not in the map.
C21_OnlyWellFormedAttributesStored ==
    \A i \in 1..Len(yielded) :
        /\ \A v \in AttributeValues(yielded[i]) :
               /\ v.fStart <= v.fEnd
               /\ yielded[i].fData.fStart <= v.fStart
               /\ v.fEnd <= yielded[i].fData.fEnd
        /\ (xmlDoc = <<9>>) => <<"f">> \notin DOMAIN yielded[i].fAttributes

\* Every stored value starts inside the tag's data span, and ends inside it
\* unless its end was never assigned.
StoredValuesStartInsideData ==
    \A i \in 1..Len(yielded) :
        \A v \in AttributeValues(yielded[i]) :
            /\ yielded[i].fData.fStart <= v.fStart
            /\ v.fStart <= yielded[i].fData.fEnd
            /\ v.fEnd = 0 \/ (v.fStart <= v.fEnd /\ v.fEnd <= yielded[i].fData.fEnd)

\* The source and the state a call of next() is entered with: the
\* constructor calls next() on the whole input in state CONTENT.
EnteredSource == IF xmlRet = "unconstructed" THEN WholeBuf ELSE fSource

EnteredState ==
    IF xmlRet = "unconstructed" THEN XML_ITERATOR_STATE_CONTENT ELSE fState

\* The address right after the '<' of the tag the call comes to.
TagAt ==
    IF EnteredState = XML_ITERATOR_STATE_START_TAG THEN EnteredSource.fStart
    ELSE FindIn(EnteredSource.fStart, EnteredSource.fEnd, {"<"}) + 1

\* The bytes of the input from address p on start with lit.
HasPrefix(p, lit) ==
    /\ p + Len(lit) - 1 <= Len(buf)
    /\ SubSeq(buf, p, p + Len(lit) - 1) = lit

\* The kind the bytes right after '<' stand for, in the order of priority.
KindByPrefix(p) ==
    IF HasPrefix(p, <<"?", "x", "m", "l">>) THEN XML_ELEMENT_TYPE_XMLDECL
    ELSE IF HasPrefix(p, <<"?">>) THEN XML_ELEMENT_TYPE_PROCESSING_INSTRUCTION
    ELSE IF HasPrefix(p, <<"!", "D", "O", "C", "T", "Y", "P", "E">>)
    THEN XML_ELEMENT_TYPE_DOCTYPE
    ELSE IF HasPrefix(p, <<"!", "-", "-">>) THEN XML_ELEMENT_TYPE_COMMENT
    ELSE IF HasPrefix(p, <<"!", "[", "C", "D", "A", "T", "A", "[">>)
    THEN XML_ELEMENT_TYPE_CDATA
    ELSE IF HasPrefix(p, <<"/">>) THEN XML_ELEMENT_TYPE_END_TAG
    ELSE XML_ELEMENT_TYPE_START_TAG

\* The addresses of the tag text from p up to the first '>' (or the end of
\* the input) that hold no whitespace byte.
TagTextInk(p) ==
    {i \in p..Len(buf) :
        /\ buf[i] \notin wspChars
        /\ \A j \in p..i : buf[j] # ">"}

\* The tag text from p, trailing whitespace removed, ends with '/'.
TagTextEndsWithSlash(p) ==
    /\ TagTextInk(p) # {}
    /\ buf[CHOOSE i \in TagTextInk(p) : \A j \in TagTextInk(p) : j <= i] = "/"

\* C23: the kind of a yielded element that is not a content run is the
\* kind the bytes right after its '<' stand for, ?xml before ?, then
\* !DOCTYPE, !--, ![CDATA[, /, and a start tag otherwise; a start tag is a
\* self-closing one exactly when its text before '>', trailing whitespace
\* removed, ends with '/'; and after the element the iterator is in state
\* CONTENT.
C23_KindDecidedByBytesAfterOpen ==
    [][(xmlRet' = "true"
          /\ fCurrentElement'.fElementKind # XML_ELEMENT_TYPE_CONTENT)
         => /\ fCurrentElement'.fElementKind =
                   IF KindByPrefix(TagAt) = XML_ELEMENT_TYPE_START_TAG
                      /\ TagTextEndsWithSlash(TagAt)
                   THEN XML_ELEMENT_TYPE_SELF_CLOSING
                   ELSE KindByPrefix(TagAt)
            /\ fState' = XML_ITERATOR_STATE_CONTENT]_vars

\* C23 witness: <?xml?><?p?><![CDATA[x]]> y <g/ ><b/> has been iterated.
C23_Witness ==
    /\ xmlDoc = <<11, 12, 2>>
    /\ Len(yielded) = 6
    /\ [i \in 1..6 |-> yielded[i].fElementKind]
         = <<XML_ELEMENT_TYPE_XMLDECL, XML_ELEMENT_TYPE_PROCESSING_INSTRUCTION,
             XML_ELEMENT_TYPE_CDATA, XML_ELEMENT_TYPE_CONTENT,
             XML_ELEMENT_TYPE_SELF_CLOSING, XML_ELEMENT_TYPE_SELF_CLOSING>>
    /\ fState = XML_ITERATOR_STATE_CONTENT

\* C24: a DOCTYPE declaration without an internal subset, <!DOCTYPE s>, is
\* yielded as one Doctype element whose data ends at its own closing '>',
\* with the source right after that '>'; and the elements after it are
\* yielded: <!DOCTYPE s><b/> gives the Doctype element and the element b.
C24_PlainDoctypeEndsAtOwnClose ==
    /\ \A k \in 1..Len(xmlDoc) :
           ( /\ xmlDoc[k] = 10
             /\ xmlRet = "true"
             /\ fCurrentElement.fElementKind = XML_ELEMENT_TYPE_DOCTYPE
             /\ fCurrentElement.fData.fStart = PieceStart(xmlDoc, k) + 1 )
           => /\ fCurrentElement.fData.fEnd = PieceStart(xmlDoc, k + 1) - 1
              /\ fSource.fStart = PieceStart(xmlDoc, k + 1)
    /\ (xmlDoc = <<10, 2>> /\ xmlRet = "false")
           => [i \in 1..Len(yielded) |-> yielded[i].fElementKind]
                = <<XML_ELEMENT_TYPE_DOCTYPE, XML_ELEMENT_TYPE_SELF_CLOSING>>

\* What <!DOCTYPE s><b/> gives: a Doctype element without data, and
\* nothing after it.
PlainDoctypeSwallowsTheRest ==
    (xmlDoc = <<10, 2>> /\ xmlRet = "false")
        => /\ Len(yielded) = 1
           /\ yielded[1].fElementKind = XML_ELEMENT_TYPE_DOCTYPE
           /\ ~NonEmpty(yielded[1].fData)

\* The mark a call of next() is entered with.
EnteredMark == IF xmlRet = "unconstructed" THEN WholeBuf ELSE mark

\* The address of the next '<' of the source the call is entered with, or
\* the end of the source.
NextOpen == FindIn(EnteredSource.fStart, EnteredSource.fEnd, {"<"})

\* C25: every content element yielded is not empty, neither starts nor
\* ends with a whitespace byte and holds no '<'; and a call of next() that
\* finds nothing but whitespace between the mark and the next '<' yields
\* no content element: it goes on in state START_TAG and yields the tag at
\* that '<', or, when nothing follows the '<', returns false in that state.
C25_ContentTrimmedAndWhitespaceSkipped ==
    /\ [](\A i \in 1..Len(yielded) :
              yielded[i].fElementKind = XML_ELEMENT_TYPE_CONTENT
                  => /\ NonEmpty(yielded[i].fData)
                     /\ Deref(yielded[i].fData) \notin wspChars
                     /\ Mem(yielded[i].fData.fEnd - 1) \notin wspChars
                     /\ \A p \in yielded[i].fData.fStart
                                   ..(yielded[i].fData.fEnd - 1) : buf[p] # "<")
    /\ [][( /\ EnteredState = XML_ITERATOR_STATE_CONTENT
            /\ NextOpen < EnteredSource.fEnd
            /\ \A p \in EnteredMark.fStart..(NextOpen - 1) :
                   buf[p] \in wspChars )
          => /\ fCurrentElement'.fElementKind # XML_ELEMENT_TYPE_CONTENT
             /\ yielded' \in {yielded, Append(yielded, fCurrentElement')}
             /\ \/ /\ xmlRet' = "false"
                   /\ fState' = XML_ITERATOR_STATE_START_TAG
                   /\ NextOpen + 1 = EnteredSource.fEnd
                \/ /\ xmlRet' = "true"
                   /\ fCurrentElement'.fElementKind
                        \in {KindByPrefix(NextOpen + 1),
                             XML_ELEMENT_TYPE_SELF_CLOSING}]_vars

\* C25 witness: of <a x="1"><![CDATA[x]]> y <g/ > the content y has been
\* yielded without the blanks around it, and of  <d> </d> nothing but the
\* two tags.
C25_Witness ==
    /\ xmlDoc = <<1, 12, 5>>
    /\ xmlRet = "false"
    /\ [i \in 1..Len(yielded) |-> yielded[i].fElementKind]
         = <<XML_ELEMENT_TYPE_START_TAG, XML_ELEMENT_TYPE_CDATA,
             XML_ELEMENT_TYPE_CONTENT, XML_ELEMENT_TYPE_SELF_CLOSING,
             XML_ELEMENT_TYPE_START_TAG, XML_ELEMENT_TYPE_END_TAG>>
    /\ Bytes(yielded[3].fData) = <<"y">>

-----------------------------------------------------------------------------
(* chunk_token in a caller's loop: while (a) token = chunk_token(a, d).    *)

TokBytes == {"a", ";", ","}

TokBufs == UNION {[1..n -> TokBytes] : n \in 1..MaxTokLen}

TokDelimSets == {{";"}, {";", ","}}

\* The buffer exists, and the caller holds a span of it: the whole buffer
\* or a part of it.
TokInit ==
    /\ buf \in TokBufs
    /\ oob \in {NUL, ";"}
    /\ tokDelims \in TokDelimSets
    /\ tokOrig \in {Span(s, e) : s \in 1..BufEnd, e \in 1..BufEnd}
    /\ tokOrig.fStart <= tokOrig.fEnd
    /\ tokA = tokOrig
    /\ tokPrev = tokOrig
    /\ tokens = <<>>
    /\ XmlIdle
    /\ NumIdle
    /\ PathIdle
    /\ ColIdle
    /\ TrIdle
    /\ RestIdle

\* One turn of the caller's loop: a is not empty, chunk_token is called.
TokCall ==
    /\ NonEmpty(tokA)
    /\ \E r \in {chunk_token(tokA, tokDelims)} :
           /\ tokens' = Append(tokens, r.token)
           /\ tokA' = r.rest
    /\ tokPrev' = tokA
    /\ UNCHANGED <<buf, oob, tokDelims, tokOrig, xmlVars, numVars, pathVars,
                   colVars, trVars,
                   restVars>>

TokNext == TokCall

SpecToken == TokInit /\ [][TokNext]_vars

\* The addresses of the delimiter bytes inside the span a.
DelimsIn(a) == {i \in a.fStart..(a.fEnd - 1) : buf[i] \in tokDelims}

\* C3: after a call of chunk_token the token returned is the bytes of the
\* span before its first delimiter; the span then starts right after that
\* one delimiter, or, when the span held no delimiter, the token is the
\* whole span and the span is left empty (start = end).  When the loop
\* ends the tokens, with one delimiter byte after each but possibly the
\* last, are exactly the bytes of the original span.
C3_TokenPartition ==
    tokens # <<>> =>
        /\ tokens[Len(tokens)].fStart = tokPrev.fStart
        /\ DelimsIn(tokPrev) # {} =>
               /\ tokens[Len(tokens)].fEnd \in DelimsIn(tokPrev)
               /\ \A i \in DelimsIn(tokPrev) : tokens[Len(tokens)].fEnd <= i
               /\ tokA = Span(tokens[Len(tokens)].fEnd + 1, tokPrev.fEnd)
        /\ DelimsIn(tokPrev) = {} =>
               /\ tokens[Len(tokens)].fEnd = tokPrev.fEnd
               /\ tokA.fStart = tokA.fEnd
               /\ tokA.fEnd = tokPrev.fEnd
        /\ ~NonEmpty(tokA) =>
               /\ tokens[1].fStart = tokOrig.fStart
               /\ \A i \in 1..(Len(tokens) - 1) :
                      /\ tokens[i].fEnd < tokOrig.fEnd
                      /\ buf[tokens[i].fEnd] \in tokDelims
                      /\ tokens[i + 1].fStart = tokens[i].fEnd + 1
               /\ \/ tokens[Len(tokens)].fEnd = tokOrig.fEnd
                  \/ /\ tokens[Len(tokens)].fEnd = tokOrig.fEnd - 1
                     /\ buf[tokOrig.fEnd - 1] \in tokDelims

-----------------------------------------------------------------------------
(* scanNumber and SVGDimension::loadSelfFromChunk.                         *)

NumBytes == {"1", "2", ".", "-", "e", "E", "m", "x"}

NumBufs == UNION {[1..n -> NumBytes] : n \in 1..MaxNumLen}

\* The buffer exists, and the caller holds a non-empty span that starts
\* with the buffer: all of it, or a leading part.
NumInit ==
    /\ buf \in NumBufs
    /\ oob \in {NUL, "m"}
    /\ numIn \in {Span(1, e) : e \in 2..BufEnd}
    /\ numchunk = NullSpan
    /\ nextPart = NullSpan
    /\ fValue = Dec(0, 0)
    /\ fUnits = SVG_UNITS_USER
    /\ numPc = "start"
    /\ XmlIdle
    /\ TokIdle
    /\ PathIdle
    /\ ColIdle
    /\ TrIdle
    /\ RestIdle

\* A caller runs scanNumber(numIn, numchunk) and keeps what it returns.
ScanNumber ==
    /\ numPc = "start"
    /\ \E r \in {scanNumber(numIn)} :
           /\ numchunk' = r.numchunk
           /\ nextPart' = r.rest
    /\ numPc' = "scanned"
    /\ UNCHANGED <<buf, oob, numIn, fValue, fUnits, xmlVars, tokVars,
                   pathVars, colVars, trVars,
                   restVars>>

\* SVGDimension::loadSelfFromChunk(numIn).
DimensionLoad ==
    /\ numPc \in {"start", "scanned"}
    /\ \E r \in {scanNumber(numIn)} :
           /\ numchunk' = r.numchunk
           /\ nextPart' = r.rest
           /\ fValue' = chunk_to_double(r.numchunk)
           /\ fUnits' = parseDimensionUnits(r.rest)
    /\ numPc' = "loaded"
    /\ UNCHANGED <<buf, oob, numIn, xmlVars, tokVars, pathVars, colVars, trVars,
                   restVars>>

NumNext == ScanNumber \/ DimensionLoad

SpecNum == NumInit /\ [][NumNext]_vars

\* The byte of numIn at address i, NUL from the end of numIn on.
NumByte(i) == IF i < numIn.fEnd THEN buf[i] ELSE NUL

\* The end of the longest run of digits of numIn that starts at address p.
DigitsEnd(p) ==
    CHOOSE k \in p..numIn.fEnd :
        /\ \A i \in p..(k - 1) : buf[i] \in digitChars
        /\ k = numIn.fEnd \/ buf[k] \notin digitChars

\* The grammar [sign] digits [. digits] [(e|E) [sign] digits] read off
\* numIn: where the integer part, the fraction and the exponent end.  An
\* e or E that is followed by m or x starts a unit, not an exponent.
IntegerEnd ==
    DigitsEnd(IF NumByte(numIn.fStart) \in {"-", "+"}
              THEN numIn.fStart + 1 ELSE numIn.fStart)

FractionEnd ==
    IF NumByte(IntegerEnd) = "." THEN DigitsEnd(IntegerEnd + 1) ELSE IntegerEnd

ExponentTaken ==
    /\ NumByte(FractionEnd) \in {"e", "E"}
    /\ NumByte(FractionEnd + 1) \notin {"m", "x"}

NumberEnd ==
    IF ExponentTaken
    THEN DigitsEnd(IF NumByte(FractionEnd + 1) \in {"-", "+"}
                   THEN FractionEnd + 2 ELSE FractionEnd + 1)
    ELSE FractionEnd

\* C4: once scanNumber has run, numchunk is the part of numIn the grammar
\* matches and the span returned is the rest; 1e2 loads as the value 100 in
\* user units, 1em and 1ex as the value 1 in em and ex units.
C4_NumberSpanAndUnits ==
    numPc # "start" =>
        /\ numchunk = Span(numIn.fStart, NumberEnd)
        /\ nextPart = Span(NumberEnd, numIn.fEnd)
        /\ numPc = "loaded" =>
               /\ Bytes(numIn) = <<"1", "e", "2">> =>
                      fValue = Dec(100, 0) /\ fUnits = SVG_UNITS_USER
               /\ Bytes(numIn) = <<"1", "e", "m">> =>
                      fValue = Dec(1, 0) /\ fUnits = SVG_UNITS_EM
               /\ Bytes(numIn) = <<"1", "e", "x">> =>
                      fValue = Dec(1, 0) /\ fUnits = SVG_UNITS_EX

-----------------------------------------------------------------------------
(* Path data: blPathFromCommands runs tokenizePath and then                *)
(* PathBuilder::parseCommands.  Path data is a sequence of at most         *)
(* MaxPathPieces pieces, each a command letter with its numbers.           *)

PathPieceBytes(id) ==
    CASE id = 1 -> <<"M", "1", "0", ",", "2", "0">>
      [] id = 2 -> <<"L", "3", "0", ",", "4", "0", " ", "5", "0", ",", "6", "0">>
      [] id = 3 -> <<"M", "1", "0">>
      [] id = 4 -> <<"m", "1", ",", "2", " ", "3", ",", "4">>
      [] id = 5 -> <<"l", "5", ",", "6">>
      [] id = 6 -> <<"H", "7">>
      [] id = 7 -> <<"Z">>
      [] id = 8 -> <<"L", "1", " ", "2", " ", "3">>
      [] id = 9 -> <<"1", "0", " ", "2", "0", " ">>
      [] id = 10 -> <<"M", "1", " ", "2", " ", "x">>
      [] id = 11 -> <<"M", "1", "e", "m">>

PathPieces == 1..8

\* The pieces with a byte that is neither a separator, a command letter nor
\* the start of a number: the x of M1 2 x, the em of M1em.
OtherBytePieces == {10, 11}

\* The pieces that start with a command letter.
CommandDocs(n) == UNION {[1..k -> PathPieces] : k \in 0..n}

\* Path data of at most n pieces: pieces that start with a command letter,
\* or the numbers 10 20 and such pieces after them, or such pieces and a
\* last one with a byte of no kind.
PathDocsOf(n) ==
    (CommandDocs(n) \ {<<>>})
        \cup {<<9>> \o d : d \in CommandDocs(n - 1)}
        \cup {d \o <<p>> : d \in CommandDocs(n - 1), p \in OtherBytePieces}

PathDocs == PathDocsOf(MaxPathPieces)

RECURSIVE PathConcat(_, _)
\* The bytes of the pieces ids[1..n].
PathConcat(ids, n) ==
    IF n = 0 THEN <<>> ELSE PathConcat(ids, n - 1) \o PathPieceBytes(ids[n])

\* What a read past the end of a segment's numbers may return.
PastNumbers == {Dec(0, 0), Dec(99, 0)}

\* blPathFromCommands is entered on one of the path data docs: the segment
\* vector and the builder's path are empty, the cursor of tokenizePath is
\* the whole path data.
PathOver(docs) ==
    /\ pathDoc \in docs
    /\ buf = PathConcat(pathDoc, Len(pathDoc))
    /\ oob = NUL
    /\ pastNumber \in PastNumbers
    /\ pathS = Span(1, Len(buf) + 1)
    /\ commands = <<>>
    /\ segNext = 1
    /\ fWorkingPath = <<>>
    /\ pathPc = "tokenize"
    /\ XmlIdle
    /\ TokIdle
    /\ NumIdle
    /\ ColIdle
    /\ TrIdle
    /\ RestIdle

PathInit == PathOver(PathDocs)

\* while (s) of tokenizePath finds the cursor not empty: the body is
\* entered.
TokenizeTest ==
    /\ pathPc = "tokenize"
    /\ NonEmpty(pathS)
    /\ pathPc' = "scan"
    /\ UNCHANGED <<buf, oob, pathDoc, pathS, commands, segNext, fWorkingPath,
                   pastNumber, xmlVars, tokVars, numVars, colVars, trVars,
                   restVars>>

\* The body of the while (s) loop of tokenizePath, back to its test.
\* commands.back() on an empty vector is undefined: the program faults, or
\* the number is written outside the vector and the scan goes on.
TokenizeTurn ==
    /\ pathPc = "scan"
    /\ \E r \in {tokenizeTurn(pathS, commands)} :
           /\ pathS' = r.s
           /\ commands' = r.commands
           /\ IF r.backOnEmpty
              THEN pathPc' \in {"fault", "tokenize"}
              ELSE pathPc' = "tokenize"
    /\ UNCHANGED <<buf, oob, pathDoc, segNext, fWorkingPath, pastNumber,
                   xmlVars, tokVars, numVars, colVars, trVars,
                   restVars>>

\* The loop of tokenizePath ends; parseCommands starts on the segments.
TokenizeEnd ==
    /\ pathPc = "tokenize"
    /\ ~NonEmpty(pathS)
    /\ pathPc' = "parse"
    /\ segNext' = 1
    /\ UNCHANGED <<buf, oob, pathDoc, pathS, commands, fWorkingPath,
                   pastNumber, xmlVars, tokVars, numVars, colVars, trVars,
                   restVars>>

\* One turn of the for loop of parseCommands: the next segment's command.
ParseCommand ==
    /\ pathPc = "parse"
    /\ segNext <= Len(commands)
    /\ fWorkingPath' = parseCommand(commands[segNext], segNext, fWorkingPath,
                                    pastNumber)
    /\ segNext' = segNext + 1
    /\ UNCHANGED <<buf, oob, pathDoc, pathS, commands, pastNumber, pathPc,
                   xmlVars, tokVars, numVars, colVars, trVars,
                   restVars>>

\* The for loop of parseCommands ends.
ParseEnd ==
    /\ pathPc = "parse"
    /\ segNext > Len(commands)
    /\ pathPc' = "done"
    /\ UNCHANGED <<buf, oob, pathDoc, pathS, commands, segNext, fWorkingPath,
                   pastNumber, xmlVars, tokVars, numVars, colVars, trVars,
                   restVars>>

PathNext ==
    TokenizeTest \/ TokenizeTurn \/ TokenizeEnd \/ ParseCommand \/ ParseEnd

SpecPath == PathInit /\ [][PathNext]_vars

\* The segments parseCommands has gone through that have fewer numbers
\* than their command takes.
ShortSegments ==
    {k \in 1..(segNext - 1) :
        Len(commands[k].fNumbers) < Arity(commands[k].fCommand)}

\* The segments that asked the path for a primitive.
AppliedSegments == {fWorkingPath[i].seg : i \in 1..Len(fWorkingPath)}

\* C5: while parseCommands runs and after it, no primitive of the path
\* comes from a segment with fewer numbers than its command takes, and
\* every other segment gone through whose command takes numbers has
\* issued a primitive, also when it comes after a short one; the path
\* data M10 alone leaves the path without any primitive.
C5_ShortSegmentRejected ==
    pathPc \in {"parse", "done"} =>
        /\ ShortSegments \cap AppliedSegments = {}
        /\ \A k \in 1..(segNext - 1) :
               (k \notin ShortSegments /\ Arity(commands[k].fCommand) > 0)
                   => k \in AppliedSegments
        /\ (pathDoc = <<3>> /\ pathPc = "done") => fWorkingPath = <<>>

\* C5 witness: parseCommands is done, it went through a short segment and
\* a later segment has issued a primitive.
C5_Witness ==
    /\ pathPc = "done"
    /\ \E k \in ShortSegments : \E j \in AppliedSegments : k < j

D(n) == Dec(n, 0)

\* What the path is asked: a primitive without the segment that asked.
Asked(op, args) == [op |-> op, args |-> args]

\* The state of a path sink: the primitives asked so far, the current
\* point and the start of the current figure.
Sink(log, cur, start) == [log |-> log, cur |-> cur, start |-> start]

\* The sink after the complete argument groups of one piece, by the SVG
\* path rules.
SinkAfter(s, id) ==
    CASE id = 1 -> Sink(Append(s.log, Asked("moveTo", <<D(10), D(20)>>)),
                        Point(D(10), D(20)), Point(D(10), D(20)))
      [] id = 2 -> Sink(s.log \o <<Asked("lineTo", <<D(30), D(40)>>),
                                   Asked("lineTo", <<D(50), D(60)>>)>>,
                        Point(D(50), D(60)), s.start)
      [] id = 3 -> s
      [] id = 4 -> Sink(s.log \o
                          <<Asked("moveTo", <<DecAdd(s.cur.x, D(1)),
                                              DecAdd(s.cur.y, D(2))>>),
                            Asked("lineTo", <<DecAdd(s.cur.x, D(4)),
                                              DecAdd(s.cur.y, D(6))>>)>>,
                        Point(DecAdd(s.cur.x, D(4)), DecAdd(s.cur.y, D(6))),
                        Point(DecAdd(s.cur.x, D(1)), DecAdd(s.cur.y, D(2))))
      [] id = 5 -> Sink(Append(s.log,
                               Asked("lineTo", <<DecAdd(s.cur.x, D(5)),
                                                 DecAdd(s.cur.y, D(6))>>)),
                        Point(DecAdd(s.cur.x, D(5)), DecAdd(s.cur.y, D(6))),
                        s.start)
      [] id = 6 -> Sink(Append(s.log, Asked("lineTo", <<D(7), s.cur.y>>)),
                        Point(D(7), s.cur.y), s.start)
      [] id = 7 -> IF s.log = <<>> THEN s
                   ELSE Sink(Append(s.log, Asked("close", <<>>)),
                             s.start, s.start)
      [] id = 8 -> Sink(Append(s.log, Asked("lineTo", <<D(1), D(2)>>)),
                        Point(D(1), D(2)), s.start)
      [] id = 9 -> s

RECURSIVE ExpectedSink(_, _)
\* The sink after the pieces ids[1..n], taken in order.
ExpectedSink(ids, n) ==
    IF n = 0 THEN Sink(<<>>, Point(D(0), D(0)), Point(D(0), D(0)))
    ELSE CHOOSE r \in {SinkAfter(s, ids[n]) : s \in {ExpectedSink(ids, n - 1)}} :
             TRUE

\* C6: the primitives come from the segments in their order in the path
\* data, and when parseCommands is done they are exactly one primitive per
\* complete argument group, in order: M10,20L30,40 50,60 (the pieces
\* <<1, 2>>) gives moveTo(10,20), lineTo(30,40), lineTo(50,60); the pairs
\* of a relative m are taken from the current point of that moment.
C6_SegmentsInOrderWithRepetition ==
    /\ \A i \in 1..(Len(fWorkingPath) - 1) :
           fWorkingPath[i].seg <= fWorkingPath[i + 1].seg
    /\ pathPc = "done" =>
           [i \in 1..Len(fWorkingPath) |->
               Asked(fWorkingPath[i].op, fWorkingPath[i].args)]
             = ExpectedSink(pathDoc, Len(pathDoc)).log

\* The command letters of the path data.
CommandLetters == {i \in 1..Len(buf) : buf[i] \in commandChars}

\* C20: tokenizePath never takes the last element of an empty segment list:
\* on path data that starts with numbers before any command letter, as
\* 10 20 L1 2 3 does (the pieces <<9, 8>>), it does not fault on the
\* numbers, and when its loop has ended there is a segment for every
\* command letter that follows them.
C20_LeadingNumbersWithoutFault ==
    /\ pathPc # "fault"
    /\ (pathDoc[1] = 9 /\ pathPc \in {"parse", "done"})
           => /\ Len(commands) = Cardinality(CommandLetters)
              /\ \A k \in 1..Len(commands) :
                     \E i \in CommandLetters :
                         /\ commands[k].fCommand = buf[i]
                         /\ Cardinality({j \in CommandLetters : j <= i}) = k

\* Path data that starts with a command letter is tokenized without a
\* fault.
CommandFirstWithoutFault == pathDoc[1] # 9 => pathPc # "fault"

\* When the numbers before the first command letter do not fault, the
\* segments after them are tokenized.
LaterSegmentsTokenized ==
    (pathDoc[1] = 9 /\ pathPc \in {"parse", "done"})
        => Len(commands) = Cardinality(CommandLetters)

\* The primitives segment k has asked of the path.
PrimitivesOf(k) == {i \in 1..Len(fWorkingPath) : fWorkingPath[i].seg = k}

\* C26: when parseCommands is done, a segment whose command takes numbers
\* has asked for one primitive per complete group of its numbers and for
\* no other: L1 2 3 (piece 8) gives lineTo(1, 2) alone, and no number is
\* read at an index at or past the count.
C26_OnlyCompleteGroupsApplied ==
    pathPc = "done" =>
        \A k \in 1..Len(commands) :
            Arity(commands[k].fCommand) > 0 =>
                Cardinality(PrimitivesOf(k))
                    = Len(commands[k].fNumbers) \div Arity(commands[k].fCommand)

\* The same for the segments whose count is a multiple of the arity.
WholeGroupsApplied ==
    pathPc = "done" =>
        \A k \in 1..Len(commands) :
            ( /\ Arity(commands[k].fCommand) > 0
              /\ Len(commands[k].fNumbers) % Arity(commands[k].fCommand) = 0 )
                => Cardinality(PrimitivesOf(k))
                     = Len(commands[k].fNumbers) \div Arity(commands[k].fCommand)

\* The primitive of the incomplete group of L1 2 3 takes its last argument
\* from past the end of the segment's numbers.
IncompleteGroupReadsPastTheEnd ==
    (pathDoc = <<8>> /\ pathPc = "done")
        => /\ Len(fWorkingPath) = 2
           /\ fWorkingPath[2].args = <<D(3), pastNumber>>

\* tokenizePath on path data of at most MaxFairPieces pieces.
PathInitFair == PathOver(PathDocsOf(MaxFairPieces))

\* The steps of tokenizePath.
TokenizeNext == TokenizeTest \/ TokenizeTurn \/ TokenizeEnd

\* The scan loop goes on while it can: nothing else runs in tokenizePath.
SpecPathFair == PathInitFair /\ [][PathNext]_vars /\ WF_vars(TokenizeNext)

\* C27: tokenizePath terminates on every path data: its scan loop is left,
\* for the segments to be parsed or by a fault.
C27_TokenizePathTerminates == <>(pathPc \notin {"tokenize", "scan"})

\* Path data whose bytes are all separators, command letters or bytes of
\* numbers.
NoOtherByte == \A i \in 1..Len(pathDoc) : pathDoc[i] \notin OtherBytePieces

\* On path data without a byte of another kind the scan loop is left.
TokenizePathTerminatesWithoutOtherByte ==
    NoOtherByte => <>(pathPc \notin {"tokenize", "scan"})

\* The body of the scan loop is entered with the cursor it was entered
\* with the turn before: the turn has consumed nothing.
ScanTurnConsumesNothing ==
    /\ pathPc = "scan"
    /\ tokenizeTurn(pathS, commands) = Scanned(pathS, commands, FALSE)

\* Each turn of the scan loop consumes at least one byte.
EveryScanTurnConsumes ==
    pathPc = "scan" => tokenizeTurn(pathS, commands).s.fStart > pathS.fStart

\* On path data without a byte of another kind each turn of the scan loop
\* consumes at least one byte.
EveryScanTurnConsumesWithoutOtherByte == NoOtherByte => EveryScanTurnConsumes

-----------------------------------------------------------------------------
(* Colours.  The input is a paint value as an attribute holds it, or three *)
(* hex digits r, g, b, for which the buffer holds #rgb followed by         *)
(* #rrggbb.                                                                *)

\* The paint values loaded: names the table holds and names it does not,
\* the functional forms, references, and hex forms that are cut short.
PaintValues ==
    {<<"r", "e", "d">>,
     <<"b", "l", "u", "e">>,
     <<"t", "a", "n">>,
     <<"n", "o", "n", "e">>,
     <<"b", "o", "g", "u", "s", "-", "n", "a", "m", "e">>,
     <<"R", "e", "d">>,
     <<"g", "r", "a", "y">>,
     <<"r", "g", "b", "(", "1", ",", "2", ",", "3", ")">>,
     <<"r", "g", "b", "a", "(", "1", ",", "2", ",", "3", ",", "1", ")">>,
     <<"r", "g", "b", "(", "5", "0", "%", ",", "0", ",", "0", ")">>,
     <<"r", "g", "b", "(", "1", ",", "2", ",", "3", ",", "4", ",", "5", ")">>,
     <<"r", "g", "b", "(", "3", "0", "0", ",", "0", ",", "0", ")">>,
     <<"r", "g", "b", "(", ")">>,
     <<"r", "g", "b", "(", "1", ",", "2">>,
     <<"u", "r", "l", "(", "#", "p", ")">>,
     <<"u", "r", "l", "(", " ", ".", "p", " ", ")">>,
     <<"u", "r", "l", "(", "#", "q", ")">>,
     <<"u", "r", "l", "(", ")">>,
     <<"#", "1", "2">>,
     <<"#", "1", "g", "3">>}

\* The bare names among the paint values: those loadSelfFromChunk takes to
\* its last branch.
BareNames ==
    {v \in PaintValues :
        /\ v[1] # "#"
        /\ \A lit \in {<<"r", "g", "b", "(">>, <<"r", "g", "b", "a", "(">>, <<"u", "r", "l", "(">>} :
               Len(v) < Len(lit) \/ SubSeq(v, 1, Len(lit)) # lit}

\* The inputs of three hex digits.
HexTriples == [1..3 -> hexChars]

\* #rgb
ShortForm(d) == <<"#", d[1], d[2], d[3]>>

\* #rrggbb
LongForm(d) == <<"#", d[1], d[1], d[2], d[2], d[3], d[3]>>

\* What a byte read past the end of a paint value may be.
ColOobBytes == {NUL, ")"}

\* An SVGPaint has been constructed and is about to load a paint value; or
\* the two hex forms of three digits are about to be parsed.
ColInit ==
    /\ \/ /\ colDoc \in PaintValues
          /\ buf = colDoc
          /\ oob \in ColOobBytes
          /\ fRoot \in BOOLEAN
       \/ /\ colDoc \in HexTriples
          /\ buf = ShortForm(colDoc) \o LongForm(colDoc)
          /\ oob = NUL
          /\ fRoot = FALSE
    /\ paintIn = IF colDoc \in HexTriples THEN Span(1, 5) ELSE WholeBuf
    /\ fPaint = Rgba(0, 0, 0, 0)
    /\ fExplicitNone = FALSE
    /\ paintIsSet = FALSE
    /\ hexShort = <<>>
    /\ hexLong = <<>>
    /\ nameColor = <<>>
    /\ colPc = "start"
    /\ XmlIdle
    /\ TokIdle
    /\ NumIdle
    /\ PathIdle
    /\ TrIdle
    /\ RestIdle

\* The conversion to uint8_t of a value it cannot hold, or a store past
\* rgbi[3], may leave any channel values.
UndefinedColors == {Rgba(0, 0, 0, 255), Rgba(255, 255, 255, 255)}

\* SVGPaint::loadSelfFromChunk(paintIn).
LoadPaint ==
    /\ colPc = "start"
    /\ \E r \in {paintLoadSelfFromChunk(paintIn, fExplicitNone, paintIsSet,
                                        fRoot)} :
           /\ fExplicitNone' = r.fExplicitNone
           /\ paintIsSet' = r.fIsSet
           /\ IF r.undefined
              THEN /\ fPaint' \in UndefinedColors \cup {r.fPaint}
                   /\ colPc' \in {"loaded", "fault"}
              ELSE /\ fPaint' = r.fPaint
                   /\ colPc' = "loaded"
    /\ UNCHANGED <<buf, oob, colDoc, paintIn, fRoot, hexShort, hexLong,
                   nameColor, xmlVars, tokVars, numVars, pathVars, trVars,
                   restVars>>

\* parseColorHex on the form #rgb.
ParseHexShort ==
    /\ colDoc \in HexTriples
    /\ hexShort = <<>>
    /\ hexShort' = <<parseColorHex(Span(1, 5))>>
    /\ UNCHANGED <<buf, oob, colDoc, paintIn, fRoot, fPaint, fExplicitNone,
                   paintIsSet, hexLong, nameColor, colPc, xmlVars, tokVars,
                   numVars, pathVars, trVars,
                   restVars>>

\* parseColorHex on the form #rrggbb.
ParseHexLong ==
    /\ colDoc \in HexTriples
    /\ hexLong = <<>>
    /\ hexLong' = <<parseColorHex(Span(5, 12))>>
    /\ UNCHANGED <<buf, oob, colDoc, paintIn, fRoot, fPaint, fExplicitNone,
                   paintIsSet, hexShort, nameColor, colPc, xmlVars, tokVars,
                   numVars, pathVars, trVars,
                   restVars>>

\* parseColorName on a bare name.
ParseColorName ==
    /\ colDoc \in BareNames
    /\ nameColor = <<>>
    /\ nameColor' = <<parseColorName(paintIn)>>
    /\ UNCHANGED <<buf, oob, colDoc, paintIn, fRoot, fPaint, fExplicitNone,
                   paintIsSet, hexShort, hexLong, colPc, xmlVars, tokVars,
                   numVars, pathVars, trVars,
                   restVars>>

ColNext == LoadPaint \/ ParseHexShort \/ ParseHexLong \/ ParseColorName

SpecColor == ColInit /\ [][ColNext]_vars

\* The paint value is a bare name the table of named colours does not hold.
AbsentName == colDoc \in BareNames /\ colDoc \notin DOMAIN colors

\* The colour is the fallback gray.
IsGray(c) == c.r = 128 /\ c.g = 128 /\ c.b = 128

C9_HexDigitDoubling ==
    (colDoc \in HexTriples /\ hexShort # <<>> /\ hexLong # <<>>) =>
        hexShort = hexLong

\* #abc and #aabbcc have both been parsed, to (170,187,204).
C9_Witness ==
    /\ colDoc = <<"a", "b", "c">>
    /\ hexShort = <<Rgba(170, 187, 204, 255)>>
    /\ hexLong = <<Rgba(170, 187, 204, 255)>>

\* The paint value is of the form rgb( or rgba(.
RgbForm ==
    /\ colDoc \in PaintValues
    /\ \E lit \in {<<"r", "g", "b", "(">>, <<"r", "g", "b", "a", "(">>} :
           Len(colDoc) >= Len(lit) /\ SubSeq(colDoc, 1, Len(lit)) = lit

\* What the channel loop of parseColorRGB does on the paint value: rgbi,
\* and i, the number of entries it has stored, each at the index i of its
\* turn.
ChannelLoop ==
    rgbLoop(chunk_token(
                chunk_token(chunk_token(paintIn, {"("}).rest, {")"}).token,
                {","}),
            0, Channels(<<0, 0, 0, 0>>, 0, FALSE))

\* C29: once a paint value of the form rgb( has been gone through,
\* parseColorRGB has stored at most four channel values, none at an index
\* past rgbi[3], the load has not faulted, and the colour has the first
\* three channels of the list: rgb(1,2,3,4,5) gives red 1, green 2, blue 3.
C29_AtMostFourChannelsStored ==
    (RgbForm /\ colPc # "start") =>
        /\ ChannelLoop.i <= 4
        /\ colDoc = <<"r", "g", "b", "(", "1", ",", "2", ",", "3", ",", "4", ",", "5", ")">> =>
               /\ colPc # "fault"
               /\ fPaint.r = 1 /\ fPaint.g = 2 /\ fPaint.b = 3

\* A channel list of at most four entries is stored inside rgbi, and
\* rgb(1,2,3) gives (1,2,3) opaque.
UpToFourChannelsStoredInside ==
    (RgbForm /\ colPc # "start"
       /\ colDoc # <<"r", "g", "b", "(", "1", ",", "2", ",", "3", ",", "4", ",", "5", ")">>) =>
        /\ ChannelLoop.i <= 4
        /\ colDoc = <<"r", "g", "b", "(", "1", ",", "2", ",", "3", ")">> =>
               colPc = "loaded" /\ fPaint = Rgba(1, 2, 3, 255)

\* The fifth entry of rgb(1,2,3,4,5) is stored at rgbi[4].
FifthChannelStoredPastTheArray ==
    (colDoc = <<"r", "g", "b", "(", "1", ",", "2", ",", "3", ",", "4", ",", "5", ")">>
       /\ colPc # "start") => ChannelLoop.i = 5

-----------------------------------------------------------------------------
(* Transform lists: the value of a transform attribute is a sequence of at *)
(* most MaxTransformPieces pieces.                                         *)

\* The pieces:
\*    1  translate(10,0)
\*    2   scale(2)
\*    3   matrix(1 0 0 1 0 0)
\*    4  ,matrix(2 0 0 2 5 5)
\*    5   rotate(90)
\*    6  translate(3)
\*    7   skewX(45)
\*    8   skewY(45)
\*    9   scale(2,3)
\*   10  translate()
\*   11   skewX()
\*   12   scale 2
\*   13   scale(3
\*   14   matrix(1 2)
TransformPieceBytes(id) ==
    CASE id = 1 -> <<"t", "r", "a", "n", "s", "l", "a", "t", "e", "(", "1", "0", ",", "0", ")">>
      [] id = 2 -> <<" ", "s", "c", "a", "l", "e", "(", "2", ")">>
      [] id = 3 -> <<" ", "m", "a", "t", "r", "i", "x", "(", "1", " ", "0", " ", "0", " ", "1", " ", "0", " ", "0", ")">>
      [] id = 4 -> <<",", "m", "a", "t", "r", "i", "x", "(", "2", " ", "0", " ", "0", " ", "2", " ", "5", " ", "5", ")">>
      [] id = 5 -> <<" ", "r", "o", "t", "a", "t", "e", "(", "9", "0", ")">>
      [] id = 6 -> <<"t", "r", "a", "n", "s", "l", "a", "t", "e", "(", "3", ")">>
      [] id = 7 -> <<" ", "s", "k", "e", "w", "X", "(", "4", "5", ")">>
      [] id = 8 -> <<" ", "s", "k", "e", "w", "Y", "(", "4", "5", ")">>
      [] id = 9 -> <<" ", "s", "c", "a", "l", "e", "(", "2", ",", "3", ")">>
      [] id = 10 -> <<"t", "r", "a", "n", "s", "l", "a", "t", "e", "(", ")">>
      [] id = 11 -> <<" ", "s", "k", "e", "w", "X", "(", ")">>
      [] id = 12 -> <<" ", "s", "c", "a", "l", "e", " ", "2">>
      [] id = 13 -> <<" ", "s", "c", "a", "l", "e", "(", "3">>
      [] id = 14 -> <<" ", "m", "a", "t", "r", "i", "x", "(", "1", " ", "2", ")">>

\* The matrix the entry of a piece stands for.
TransformPieceMatrix(id) ==
    CASE id = 1 -> Matrix(D(1), D(0), D(0), D(1), D(10), D(0))
      [] id = 2 -> Matrix(D(2), D(0), D(0), D(2), D(0), D(0))
      [] id = 3 -> Matrix(D(1), D(0), D(0), D(1), D(0), D(0))
      [] id = 4 -> Matrix(D(2), D(0), D(0), D(2), D(5), D(5))
      [] id = 5 -> Matrix(D(0), D(1), D(-1), D(0), D(0), D(0))
      [] id = 6 -> Matrix(D(1), D(0), D(0), D(1), D(3), D(0))
      [] id = 7 -> Matrix(D(1), D(0), D(1), D(1), D(0), D(0))
      [] id = 8 -> Matrix(D(1), D(1), D(0), D(1), D(0), D(0))
      [] id = 9 -> Matrix(D(2), D(0), D(0), D(3), D(0), D(0))

\* The pieces that are one entry with the arguments its function takes.
EntryPieces == 1..9

TransformPieces == 1..14

TransformDocs ==
    UNION {[1..n -> TransformPieces] : n \in 1..MaxTransformPieces}

RECURSIVE TransformConcat(_, _)
\* The bytes of the pieces ids[1..n].
TransformConcat(ids, n) ==
    IF n = 0 THEN <<>>
    ELSE TransformConcat(ids, n - 1) \o TransformPieceBytes(ids[n])

\* What an array that is not initialized may hold.
StrayArgs == [1..2 -> {Dec(0, 0), Dec(45, 0)}]

\* SVGTransform::loadSelfFromChunk is entered: fTransform.reset().
TransformInit ==
    /\ trDoc \in TransformDocs
    /\ buf = TransformConcat(trDoc, Len(trDoc))
    /\ oob = NUL
    /\ strayArgs \in StrayArgs
    /\ trS = Span(1, Len(buf) + 1)
    /\ fTransform = Identity
    /\ transformIsSet = FALSE
    /\ trPc = "load"
    /\ XmlIdle
    /\ TokIdle
    /\ NumIdle
    /\ PathIdle
    /\ ColIdle
    /\ RestIdle

\* One turn of the while (s) loop of loadSelfFromChunk.
TransformTurn ==
    /\ trPc = "load"
    /\ NonEmpty(trS)
    /\ \E r \in {transformTurn(trS, fTransform, strayArgs)} :
           /\ trS' = r.s
           /\ fTransform' = r.fTransform
           /\ transformIsSet' = (transformIsSet \/ r.set)
    /\ UNCHANGED <<buf, oob, trDoc, strayArgs, trPc, xmlVars, tokVars,
                   numVars, pathVars, colVars,
                   restVars>>

\* The loop of loadSelfFromChunk ends.
TransformEnd ==
    /\ trPc = "load"
    /\ ~NonEmpty(trS)
    /\ trPc' = "done"
    /\ UNCHANGED <<buf, oob, trDoc, trS, fTransform, transformIsSet,
                   strayArgs, xmlVars, tokVars, numVars, pathVars, colVars,
                   restVars>>

TransformNext == TransformTurn \/ TransformEnd

SpecTransform == TransformInit /\ [][TransformNext]_vars

TransformInitFair == TransformInit /\ Len(trDoc) <= MaxFairPieces

\* loadSelfFromChunk runs its loop to the end once it is entered.
SpecTransformFair ==
    TransformInitFair /\ [][TransformNext]_vars /\ WF_vars(TransformNext)

RECURSIVE ComposedInOrder(_, _)
\* The entries of the pieces ids[1..n] composed in their order: the entry
\* of a later piece is applied to a point before those of the pieces
\* before it.
ComposedInOrder(ids, n) ==
    IF n = 0 THEN Identity
    ELSE MatMul(TransformPieceMatrix(ids[n]), ComposedInOrder(ids, n - 1))

\* C7: the entries of a transform list are composed in encounter order, the
\* textually first entry applied last to a point: the transform loaded is
\* the product of the entries' matrices in that order, and the one loaded
\* from translate(10,0) scale(2) (the pieces <<1, 2>>) maps (1,0) to (12,0).
C7_ComposedInEncounterOrder ==
    (trPc = "done" /\ \A i \in 1..Len(trDoc) : trDoc[i] \in EntryPieces) =>
        /\ fTransform = ComposedInOrder(trDoc, Len(trDoc))
        /\ trDoc = <<1, 2>> =>
               mapPoint(fTransform, D(1), D(0)) = Point(D(12), D(0))

\* C15: whenever the scan loop stands right after the entry of piece k of
\* a list of recognized functions with their arguments, the transform is
\* the product, in source order, of the matrices of the entries 1..k, for
\* every recognized function: a matrix entry is multiplied onto the
\* transform accumulated from the entries before it, as a translate,
\* scale, rotate, skewX or skewY entry is.
C15_MatrixEntryMultipliedOntoAccumulated ==
    \A k \in 1..Len(trDoc) :
        ( /\ trPc \in {"load", "done"}
          /\ trS.fStart = Len(TransformConcat(trDoc, k)) + 1
          /\ \A i \in 1..k : trDoc[i] \in EntryPieces )
        => fTransform = ComposedInOrder(trDoc, k)

\* The names of the functions loadSelfFromChunk recognizes.
FunctionNames ==
    {<<"m", "a", "t", "r", "i", "x">>,
     <<"t", "r", "a", "n", "s", "l", "a", "t", "e">>,
     <<"s", "c", "a", "l", "e">>, <<"r", "o", "t", "a", "t", "e">>,
     <<"s", "k", "e", "w", "X">>, <<"s", "k", "e", "w", "Y">>}

\* The address after the first ')' that follows the '(' at address open,
\* the end of the input when either is missing.
AfterClose(open, e) ==
    IF open < e /\ FindIn(open + 1, e, {")"}) < e
    THEN FindIn(open + 1, e, {")"}) + 1
    ELSE e

\* Where one turn of the scan loop leaves the cursor that it finds at q
\* after the white space.
AfterTurn(q) ==
    IF \E name \in FunctionNames : chunk_starts_with_cstr(q, name)
    THEN AfterClose(FindIn(q.fStart, q.fEnd, {"("}), q.fEnd)
    ELSE IF q.fStart < q.fEnd THEN q.fStart + 1 ELSE q.fEnd

\* C16: every turn of the scan loop of loadSelfFromChunk strictly shortens
\* the remaining span: after the white space a recognized function is
\* consumed through its closing ')', or to the end of the input when its
\* '(' or ')' is missing, and any other byte is skipped alone; and on
\* every input the loop ends.
C16_LoadSelfFromChunkTerminates ==
    /\ [][(trPc = "load" /\ NonEmpty(trS)) =>
              /\ chunk_size(trS') < chunk_size(trS)
              /\ trS'.fEnd = trS.fEnd
              /\ trS'.fStart = AfterTurn(chunk_skip_wsp(trS))]_vars
    /\ <>(trPc = "done")

\* C16 witness: the loop has ended on a list that starts with a byte of no
\* function and ends in a function without its closing ')'.
C16_Witness ==
    /\ trDoc = <<4, 13>>
    /\ trPc = "done"
    /\ trS.fStart = Len(buf) + 1

\* The cursor q is at a recognized function.
RecognizedAt(q) == \E name \in FunctionNames : chunk_starts_with_cstr(q, name)

\* The arguments of the recognized function at q cannot be parsed:
\* parseTransformArgs stores no number (nothing between the parentheses, or
\* a parenthesis missing), or not the six of matrix.
UnparsedAt(q) ==
    /\ RecognizedAt(q)
    /\ \E na \in {Len(parseTransformArgs(q, 6).stored)} :
           \/ na = 0
           \/ chunk_starts_with_cstr(q, <<"m", "a", "t", "r", "i", "x">>)
                  /\ na # 6

\* The turn of the scan loop that is about to run is at an entry whose
\* arguments cannot be parsed.
UnparsedEntryNext ==
    /\ trPc = "load"
    /\ NonEmpty(trS)
    /\ UnparsedAt(chunk_skip_wsp(trS))

\* C28: the entry of a recognized function whose arguments cannot be parsed
\* contributes the identity: the transform after the turn is the transform
\* before it, whatever the argument array held before it was assigned.
C28_UnparsedEntryContributesIdentity ==
    [][UnparsedEntryNext =>
           /\ fTransform' = fTransform
           /\ \A u \in StrayArgs :
                  transformTurn(trS, fTransform, u).fTransform = fTransform]_vars

\* A matrix entry without its six numbers leaves the identity as the
\* transform, whatever the transform was.
UnparsedMatrixLeavesIdentity ==
    [][(UnparsedEntryNext
          /\ chunk_starts_with_cstr(chunk_skip_wsp(trS),
                                    <<"m", "a", "t", "r", "i", "x">>))
           => fTransform' = Identity]_vars

\* A scale entry without numbers scales by zero.
UnparsedScaleScalesByZero ==
    [][(UnparsedEntryNext
          /\ chunk_starts_with_cstr(chunk_skip_wsp(trS),
                                    <<"s", "c", "a", "l", "e">>))
           => fTransform' = scale(fTransform, D(0), D(0))]_vars

\* A translate or skewX entry without numbers takes its arguments from the
\* array as it was before the call.
UnparsedTranslateUsesStrayArgs ==
    [][(UnparsedEntryNext
          /\ chunk_starts_with_cstr(chunk_skip_wsp(trS),
                 <<"t", "r", "a", "n", "s", "l", "a", "t", "e">>))
           => fTransform' = translate(fTransform, strayArgs[1], strayArgs[2])]_vars

-----------------------------------------------------------------------------
(* The span utilities of bspan.h and bspanutil.h, each applied once to a   *)
(* span of a buffer: any span of it, the empty ones and the null span      *)
(* among them.  Besides its result a call records the addresses it may     *)
(* read: a loop that tests start < end before it reads the byte at start   *)
(* reads the bytes of the span up to the one it stops at; the dereference  *)
(* operator and operator bool guard their reads by fStart < fEnd, so a     *)
(* cursor read through them stays inside the span; operator[] and a raw    *)
(* pointer read wherever they point.                                       *)

SpanBytes == {"1", ",", " ", "e"}

SpanBufs == UNION {[1..n -> SpanBytes] : n \in 1..MaxSpanLen}

\* The spans of a buffer of n bytes, and the default-constructed span.
SpansOf(n) ==
    {a \in {Span(s, e) : s \in 1..(n + 1), e \in 1..(n + 1)} :
        a.fStart <= a.fEnd}
        \cup {NullSpan}

\* The character chunk_find_char is asked for, and the delimiters of
\* chunk_token and nextNumber.
FindChar == ","

\* The addresses of the bytes of a span.
ownAddresses(a) == a.fStart..(a.fEnd - 1)

\* The reads of a loop that moves start forward while start < end and the
\* byte at start passes a test, and stops at address stop.
forwardReads(a, stop) == {i \in ownAddresses(a) : i <= stop}

\* The reads of a loop that moves end backward while start < end and the
\* byte at end - 1 passes a test, and stops with end at address stop.
backwardReads(a, stop) == {i \in ownAddresses(a) : i >= stop - 1}

ltrimReads(a, skippable) ==
    forwardReads(a, SkipIn(a.fStart, a.fEnd, skippable))

rtrimReads(a, skippable) ==
    backwardReads(a, SkipBack(a.fStart, a.fEnd, skippable))

trimReads(a, skippable) ==
    ltrimReads(a, skippable)
        \cup rtrimReads(chunk_ltrim(a, skippable), skippable)

\* chunk_token: the loop's reads, and the read of *tokenEnd after it.
tokenReads(a, delims) ==
    forwardReads(a, FindIn(a.fStart, a.fEnd, delims))
        \cup {FindIn(a.fStart, a.fEnd, delims)}

\* chunk_is_equal: memcmp over the span when the sizes agree.
equalReads(a, n) == IF chunk_size(a) = n THEN ownAddresses(a) ELSE {}

\* chunk_ends_with_char: a.fEnd[-1] when the size is not zero.
endsWithReads(a) == IF chunk_size(a) # 0 THEN {a.fEnd - 1} ELSE {}

\* scanNumber: reads through operator*, and s[1] when *s is 'e' or 'E'
\* where the exponent may start.
lookAheadReads(p, e) == IF DerefAt(p, e) \in {"e", "E"} THEN {p + 1} ELSE {}

scanNumberReads(a) ==
    ownAddresses(a)
        \cup lookAheadReads(scanFraction(scanInteger(a.fStart, a.fEnd),
                                         a.fEnd), a.fEnd)

\* parseDimensionUnits: units[0] of a span that is not empty, and units[1]
\* when units[0] is the first byte of a unit of two bytes.
unitsReads(a) ==
    IF ~NonEmpty(a) THEN {}
    ELSE {a.fStart}
             \cup (IF At(a, 0) \in {"p", "m", "c", "i", "e"}
                   THEN {a.fStart + 1} ELSE {})

\* nextNumber: chunk_ltrim, chunk_token on what it leaves, chunk_to_double
\* on the token.
nextNumberReads(a, delims) ==
    ltrimReads(a, wspChars) \cup tokenReads(chunk_ltrim(a, wspChars), delims)

UtInit ==
    /\ buf \in SpanBufs
    /\ oob \in {NUL, FindChar}
    /\ utIn \in SpansOf(Len(buf))
    /\ utOp = "none"
    /\ utOut = NoResult
    /\ XmlIdle
    /\ TokIdle
    /\ NumIdle
    /\ PathIdle
    /\ ColIdle
    /\ TrIdle
    /\ PropIdle
    /\ CssIdle
    /\ ParIdle

\* One call of a utility on the span utIn.
UtApply(utility, out) ==
    /\ utOp = "none"
    /\ utOp' = utility
    /\ utOut' = out
    /\ UNCHANGED <<buf, oob, utIn, xmlVars, tokVars, numVars, pathVars,
                   colVars, trVars, propVars, cssVars, parVars>>

\* A call that returns a span and leaves the input as it was.
SpanResult(span, mayRead) ==
    Result(span, utIn, Dec(0, 0), FALSE, NUL, mayRead)

\* A call that returns a number and leaves the span left.
NumberResult(value, left, mayRead) ==
    Result(NullSpan, left, value, FALSE, NUL, mayRead)

\* A call that returns a truth value.
FlagResult(flag, mayRead) ==
    Result(NullSpan, utIn, Dec(0, 0), flag, NUL, mayRead)

UtTrim ==
    UtApply("chunk_trim",
            SpanResult(chunk_trim(utIn, wspChars), trimReads(utIn, wspChars)))

UtLtrim ==
    UtApply("chunk_ltrim",
            SpanResult(chunk_ltrim(utIn, wspChars),
                       ltrimReads(utIn, wspChars)))

UtRtrim ==
    UtApply("chunk_rtrim",
            SpanResult(chunk_rtrim(utIn, wspChars),
                       rtrimReads(utIn, wspChars)))

UtToken ==
    \E tk \in {chunk_token(utIn, {FindChar})} :
        UtApply("chunk_token",
                Result(tk.token, tk.rest, Dec(0, 0), FALSE, NUL,
                       tokenReads(utIn, {FindChar})))

UtFindChar ==
    UtApply("chunk_find_char",
            SpanResult(chunk_find_char(utIn, FindChar),
                       forwardReads(utIn, FindIn(utIn.fStart, utIn.fEnd,
                                                 {FindChar}))))

UtSubchunk ==
    \E startAt \in 0..1, sz \in 0..2 :
        UtApply("chunk_subchunk",
                SpanResult(chunk_subchunk(utIn, startAt, sz), {}))

UtStartsWith ==
    \E lit \in {<<"1">>, <<"1", ",">>} :
        UtApply("chunk_starts_with_cstr",
                FlagResult(chunk_starts_with_cstr(utIn, lit),
                           equalReads(chunk_subchunk(utIn, 0, Len(lit)),
                                      Len(lit))))

UtEndsWith ==
    UtApply("chunk_ends_with_char",
            FlagResult(chunk_ends_with_char(utIn, FindChar),
                       endsWithReads(utIn)))

UtToU64 ==
    UtApply("chunk_to_u64",
            NumberResult(Dec(chunk_to_u64(utIn), 0),
                         Span(SkipIn(utIn.fStart, utIn.fEnd, digitChars),
                              utIn.fEnd),
                         ownAddresses(utIn)))

UtToI64 ==
    UtApply("chunk_to_i64",
            NumberResult(Dec(chunk_to_i64(utIn), 0), utIn,
                         ownAddresses(utIn)))

UtToDouble ==
    UtApply("chunk_to_double",
            NumberResult(chunk_to_double(utIn), utIn, ownAddresses(utIn)))

UtScanNumber ==
    \E r \in {scanNumber(utIn)} :
        UtApply("scanNumber",
                Result(r.numchunk, r.rest, Dec(0, 0), FALSE, NUL,
                       scanNumberReads(utIn)))

UtNextNumber ==
    \E r \in {nextNumber(utIn, {FindChar})} :
        UtApply("nextNumber",
                NumberResult(r.v, r.s, nextNumberReads(utIn, {FindChar})))

UtParseDimensionUnits ==
    UtApply("parseDimensionUnits",
            NumberResult(Dec(parseDimensionUnits(utIn), 0), utIn,
                         unitsReads(utIn)))

UtDeref ==
    UtApply("operator*",
            Result(NullSpan, utIn, Dec(0, 0), FALSE, Deref(utIn),
                   IF utIn.fStart < utIn.fEnd THEN {utIn.fStart} ELSE {}))

UtNext ==
    \/ UtTrim
    \/ UtLtrim
    \/ UtRtrim
    \/ UtToken
    \/ UtFindChar
    \/ UtSubchunk
    \/ UtStartsWith
    \/ UtEndsWith
    \/ UtToU64
    \/ UtToI64
    \/ UtToDouble
    \/ UtScanNumber
    \/ UtNextNumber
    \/ UtParseDimensionUnits
    \/ UtDeref

SpecSpan == UtInit /\ [][UtNext]_vars

\* C13: a span utility applied to an empty span (start == end) returns an
\* empty span, the number zero, false or the byte 0 and reads no byte at
\* all: neither a byte of the buffer nor one outside it.
C13_EmptySpanReadsNothing ==
    (utOp # "none" /\ utIn.fStart = utIn.fEnd) =>
        /\ utOut.span.fStart = utOut.span.fEnd
        /\ utOut.value = Dec(0, 0)
        /\ ~utOut.flag
        /\ utOut.byte = NUL
        /\ utOut.mayRead = {}

\* The first address of utIn that holds FindChar, utIn.fEnd without one.
FirstFindChar ==
    CHOOSE p \in utIn.fStart..utIn.fEnd :
        /\ \A i \in utIn.fStart..(p - 1) : Mem(i) # FindChar
        /\ p < utIn.fEnd => Mem(p) = FindChar

C30_ReadsStayInsideTheSpan ==
    (utOp \in {"scanNumber", "parseDimensionUnits"} /\ NonEmpty(utIn)) =>
        utOut.mayRead \subseteq ownAddresses(utIn)

\* scanNumber reads inside the span unless the span ends with the e where
\* the exponent may start, and then it reads the byte after the span.
ScanNumberReadsOutsideOnlyAfterLastE ==
    (utOp = "scanNumber" /\ NonEmpty(utIn)) =>
        \/ utOut.mayRead \subseteq ownAddresses(utIn)
        \/ /\ Mem(utIn.fEnd - 1) \in {"e", "E"}
           /\ utOut.mayRead \ ownAddresses(utIn) = {utIn.fEnd}

\* parseDimensionUnits reads inside a span of two bytes or more.
UnitsOfTwoBytesReadInside ==
    (utOp = "parseDimensionUnits" /\ chunk_size(utIn) >= 2) =>
        utOut.mayRead \subseteq ownAddresses(utIn)

-----------------------------------------------------------------------------
(* Loading a presentation attribute whose value is a keyword: a property   *)
(* of one of four kinds is constructed and loads the attribute value.      *)

\* The keywords of stroke-linecap, stroke-linejoin and fill-rule, one of
\* them inside whitespace, and values that are keywords of none of them.
KeywordValues ==
    {<<"b", "u", "t", "t">>,
     <<"r", "o", "u", "n", "d">>,
     <<" ", "r", "o", "u", "n", "d", " ">>,
     <<"s", "q", "u", "a", "r", "e">>,
     <<"m", "i", "t", "e", "r">>,
     <<"b", "e", "v", "e", "l">>,
     <<"m", "i", "t", "e", "r", "-", "c", "l", "i", "p">>,
     <<"a", "r", "c", "s">>,
     <<"n", "o", "n", "z", "e", "r", "o">>,
     <<"e", "v", "e", "n", "o", "d", "d">>,
     <<"B", "u", "t", "t">>}

\* The attribute values loaded.
PropValues == BareNames \cup KeywordValues

\* The attributes whose property is loaded.
PropKinds == {"fill", "stroke-linecap", "stroke-linejoin", "fill-rule"}

\* What the constructor of the property of an attribute leaves: fPaint{}
\* with fExplicitNone{false}, fLineCap{BL_STROKE_CAP_BUTT},
\* fLineJoin{SVG_JOIN_MITER_BEVEL}, fValue{BL_FILL_RULE_NON_ZERO}; and
\* fIsSet{false}.
Constructed(kind) ==
    CASE kind = "fill" ->
             Property([fPaint |-> Rgba(0, 0, 0, 0), fExplicitNone |-> FALSE],
                      FALSE)
      [] kind = "stroke-linecap" -> Property("BL_STROKE_CAP_BUTT", FALSE)
      [] kind = "stroke-linejoin" -> Property("SVG_JOIN_MITER_BEVEL", FALSE)
      [] kind = "fill-rule" -> Property("BL_FILL_RULE_NON_ZERO", FALSE)

\* SVGPaint::loadSelfFromChunk on the SVGPaint P, as a property.
paintProperty(inChunk, P) ==
    LET r == paintLoadSelfFromChunk(inChunk, P.value.fExplicitNone, P.fIsSet,
                                    FALSE)
    IN  Property([fPaint |-> r.fPaint, fExplicitNone |-> r.fExplicitNone],
                 r.fIsSet)

\* The keywords loadSelfFromChunk of a property knows, after trimming where
\* it trims.
Recognized(kind, v) ==
    LET t == Bytes(chunk_trim(WholeBuf, wspChars))
    IN  CASE kind = "fill" ->
                 v \in DOMAIN colors \cup {<<"n", "o", "n", "e">>}
          [] kind = "stroke-linecap" ->
                 t \in {<<"b", "u", "t", "t">>, <<"r", "o", "u", "n", "d">>,
                        <<"s", "q", "u", "a", "r", "e">>}
          [] kind = "stroke-linejoin" ->
                 t \in {<<"m", "i", "t", "e", "r">>, <<"r", "o", "u", "n", "d">>,
                        <<"b", "e", "v", "e", "l">>,
                        <<"m", "i", "t", "e", "r", "-", "c", "l", "i", "p">>}
          [] kind = "fill-rule" ->
                 t \in {<<"n", "o", "n", "z", "e", "r", "o">>,
                        <<"e", "v", "e", "n", "o", "d", "d">>}

\* A property has been constructed for an attribute and is about to load
\* the attribute's value.
PropInit ==
    /\ propDoc \in PropValues
    /\ buf = propDoc
    /\ oob \in ColOobBytes
    /\ propKind \in PropKinds
    /\ property = Constructed(propKind)
    /\ propPc = "constructed"
    /\ XmlIdle
    /\ TokIdle
    /\ NumIdle
    /\ PathIdle
    /\ ColIdle
    /\ TrIdle
    /\ UtIdle
    /\ CssIdle
    /\ ParIdle

\* createFromChunk: loadFromChunk(inChunk) on the constructed property.
PropLoad(kind, loaded) ==
    /\ propPc = "constructed"
    /\ propKind = kind
    /\ property' = loaded
    /\ propPc' = "loaded"
    /\ UNCHANGED <<buf, oob, propDoc, propKind, xmlVars, tokVars, numVars,
                   pathVars, colVars, trVars, utVars, cssVars,
                   parVars>>

LoadFill == PropLoad("fill", paintProperty(WholeBuf, property))

LoadStrokeLineCap ==
    PropLoad("stroke-linecap", strokeLineCapLoadSelfFromChunk(WholeBuf, property))

LoadStrokeLineJoin ==
    PropLoad("stroke-linejoin",
             strokeLineJoinLoadSelfFromChunk(WholeBuf, property))

LoadFillRule == PropLoad("fill-rule", fillRuleLoadSelfFromChunk(WholeBuf, property))

PropNext == LoadFill \/ LoadStrokeLineCap \/ LoadStrokeLineJoin \/ LoadFillRule

SpecProperty == PropInit /\ [][PropNext]_vars

\* C17: after a property has loaded an attribute value that is a keyword
\* it does not know (a colour name the table does not hold, or a keyword
\* that is none of those of stroke-linecap, stroke-linejoin or fill-rule),
\* the property has the value its constructor gave it and its is-set flag
\* is false.
C17_UnknownKeywordLeavesDefaultUnset ==
    (propPc = "loaded" /\ ~Recognized(propKind, propDoc))
        => property = Constructed(propKind)

\* The same for the three keyword properties alone.
KeywordPropertiesLeaveDefaultUnset ==
    (propPc = "loaded" /\ propKind # "fill" /\ ~Recognized(propKind, propDoc))
        => property = Constructed(propKind)

\* A keyword a property knows is loaded and the flag is set.
RecognizedKeywordsAreSet ==
    (propPc = "loaded" /\ Recognized(propKind, propDoc)) => property.fIsSet

-----------------------------------------------------------------------------
(* Inline styles.  A style string is a sequence of pieces; an iterator is  *)
(* constructed over it and next() is called again and again, or            *)
(* parseStyleAttribute is called on it.                                    *)

StylePieceBytes(id) ==
    CASE id = 1 -> <<"a", ":", "b", ";">>
      [] id = 2 -> <<";">>
      [] id = 3 -> <<"c", ":", "d">>
      [] id = 4 -> <<" ">>
      [] id = 5 -> <<"e", ";">>
      [] id = 6 -> <<":", "f", ";">>
      [] id = 7 -> <<"g", ":", ";">>
      [] id = 8 -> <<" ", "h", " ", ":", " ", "i", " ", "j", " ", ";">>

StylePieces == 1..8

\* The style strings of at most n pieces.
StyleDocs(n) == UNION {[1..k -> StylePieces] : k \in 0..n}

RECURSIVE StyleConcat(_, _)

StyleConcat(ids, n) ==
    IF n = 0 THEN <<>>
    ELSE StyleConcat(ids, n - 1) \o StylePieceBytes(ids[n])

\* What a byte read past the end of the style string may be.
StyleOobBytes == {NUL, ";", ":"}

\* The state of the style variables over the string of the pieces doc,
\* with the iterator constructed over the whole of it.
StyleOver(doc, pc) ==
    /\ cssDoc = doc
    /\ buf = StyleConcat(cssDoc, Len(cssDoc))
    /\ oob \in StyleOobBytes
    /\ fChunk = Span(1, Len(buf) + 1)
    /\ fCurrentName = NullSpan
    /\ fCurrentValue = NullSpan
    /\ styleRet = "none"
    /\ styleRets = <<>>
    /\ styleAttributes = NoAttributes
    /\ cssPc = pc
    /\ XmlIdle
    /\ TokIdle
    /\ NumIdle
    /\ PathIdle
    /\ ColIdle
    /\ TrIdle
    /\ UtIdle
    /\ PropIdle
    /\ ParIdle

\* CSSInlineStyleIterator(inChunk) has been constructed.
StyleIterInit == \E doc \in StyleDocs(MaxFairPieces) : StyleOver(doc, "iterate")

\* The iterator takes what a call of next() left.
StyleIteratorBecomes(it) ==
    /\ fChunk' = it.fChunk
    /\ fCurrentName' = it.fCurrentName
    /\ fCurrentValue' = it.fCurrentValue
    /\ styleRet' = IF it.ret THEN "true" ELSE "false"
    /\ styleRets' = IF it.fChunk # fChunk
                    THEN Append(styleRets, it.ret) ELSE styleRets

\* A caller calls next().
StyleIterNext ==
    /\ cssPc = "iterate"
    /\ \E it \in {styleNext(fChunk)} : StyleIteratorBecomes(it)
    /\ UNCHANGED <<buf, oob, cssDoc, styleAttributes, cssPc, xmlVars, tokVars,
                   numVars, pathVars, colVars, trVars, utVars, propVars,
                   parVars>>

SpecStyleIterFair ==
    StyleIterInit /\ [][StyleIterNext]_vars /\ WF_vars(StyleIterNext)

\* parseStyleAttribute(inChunk, styleElement) has been called.
StyleInit == \E doc \in StyleDocs(MaxStylePieces) : StyleOver(doc, "start")

\* parseStyleAttribute up to its loop.
ParseStyleBegin ==
    /\ cssPc = "start"
    /\ cssPc' = IF NonEmpty(fChunk) THEN "parse" ELSE "done"
    /\ UNCHANGED <<buf, oob, cssDoc, fChunk, fCurrentName, fCurrentValue,
                   styleRet, styleRets, styleAttributes, xmlVars, tokVars,
                   numVars, pathVars, colVars, trVars, utVars, propVars,
                   parVars>>

\* One turn of while (iter.next()).
ParseStyleTurn ==
    /\ cssPc = "parse"
    /\ \E it \in {styleNext(fChunk)} :
           /\ StyleIteratorBecomes(it)
           /\ styleAttributes' = IF it.ret
                                 THEN styleAddAttribute(styleAttributes, it)
                                 ELSE styleAttributes
           /\ cssPc' = IF it.ret THEN "parse" ELSE "done"
    /\ UNCHANGED <<buf, oob, cssDoc, xmlVars, tokVars, numVars, pathVars,
                   colVars, trVars, utVars, propVars, parVars>>

StyleNext == ParseStyleBegin \/ ParseStyleTurn

SpecStyle == StyleInit /\ [][StyleNext]_vars

\* The attributes of every group of the source chunk whose name and value
\* are not empty after trimming, added to attrs: the groups are taken as
\* next() takes them, to the end of the source.
RECURSIVE EveryValidGroup(_, _)

EveryValidGroup(chunk, attrs) ==
    IF ~NonEmpty(chunk_skip_wsp(chunk)) THEN attrs
    ELSE LET it == styleNext(chunk)
         IN  EveryValidGroup(it.fChunk,
                             IF it.ret THEN styleAddAttribute(attrs, it)
                             ELSE attrs)

\* C18: when parseStyleAttribute has returned, the element holds the
\* attribute of every group of the style string whose name and value are
\* not empty after trimming, those after a group with an empty name or
\* value included.
C18_EveryValidGroupIsAdded ==
    cssPc = "done" => styleAttributes = EveryValidGroup(Span(1, Len(buf) + 1),
                                                        NoAttributes)

\* Up to the first failed group the groups are added.
GroupsBeforeTheFirstFailureAreAdded ==
    (cssPc = "done" /\ \A i \in 1..Len(styleRets) : styleRets[i])
        => styleAttributes = EveryValidGroup(Span(1, Len(buf) + 1), NoAttributes)

\* Whatever parseStyleAttribute adds is a valid group of the string.
AddedGroupsAreValid ==
    LET every == EveryValidGroup(Span(1, Len(buf) + 1), NoAttributes)
    IN  \A n \in DOMAIN styleAttributes :
            n \in DOMAIN every

\* The source is exhausted and next() has said so.
StyleExhausted ==
    /\ ~NonEmpty(fChunk)
    /\ styleRet = "false"
    /\ fCurrentName = NullSpan
    /\ fCurrentValue = NullSpan

\* C19: a call of next() on a source that is not empty after skipping
\* whitespace moves the start of the source forward by at least one byte,
\* whether it returns true or false; the calls reach an exhausted source;
\* and on an exhausted source next() returns false with empty name and value.
C19_NextConsumesUntilExhausted ==
    /\ [][NonEmpty(chunk_skip_wsp(fChunk)) =>
              /\ fChunk'.fStart >= fChunk.fStart + 1
              /\ fChunk'.fEnd = fChunk.fEnd]_vars
    /\ [][~NonEmpty(chunk_skip_wsp(fChunk)) => StyleExhausted']_vars
    /\ <>[]StyleExhausted

\* `;c:d` has been iterated to its end: a failed pair, a pair, the end.
C19_Witness ==
    /\ cssDoc = <<2, 3>>
    /\ styleRets = <<FALSE, TRUE>>
    /\ StyleExhausted

-----------------------------------------------------------------------------
(* Two parses, interleaved.  Each has its own document, the two documents  *)
(* lie one after the other in memory, and each parse has its own cursor:   *)
(* an XmlElementIterator its caller pulls from until next() returns false, *)
(* or a call of parsePath.  A step is one call of next(), or one turn of   *)
(* the loop of parsePath.  parseMap is the one object both can reach.      *)

\* An XmlElementIterator, the elements it has yielded and what the last
\* call of next() returned ("unconstructed" before the constructor).
XmlParse(st, src, mk, elem, seen, ret) ==
    [fState |-> st, fSource |-> src, mark |-> mk, fCurrentElement |-> elem,
     yielded |-> seen, ret |-> ret]

\* A parse: its kind, the pieces and the span of its document, and its
\* iterator or its call of parsePath.
Parse(kind, doc, region, xml, path) ==
    [kind |-> kind, doc |-> doc, region |-> region, xml |-> xml,
     path |-> path]

NoXmlParse ==
    XmlParse(XML_ITERATOR_STATE_CONTENT, NullSpan, NullSpan, ClearedElement,
             <<>>, "none")

NoPathParse == PathParse(NullSpan, INVALID, 0, <<>>, "none")

\* The parse of a document before its first step.
Started(kind, doc, region) ==
    IF kind = "xml"
    THEN Parse(kind, doc, region,
               XmlParse(XML_ITERATOR_STATE_CONTENT, NullSpan, NullSpan,
                        ClearedElement, <<>>, "unconstructed"),
               NoPathParse)
    ELSE Parse(kind, doc, region, NoXmlParse,
               PathParse(region, INVALID, 0, <<>>, "running"))

\* The parse has steps left.
Running(p) ==
    IF p.kind = "xml" THEN p.xml.ret # "false" ELSE p.path.ret = "running"

\* The iterator x after the call of next() that gave r.
xmlParseAfter(x, r) ==
    XmlParse(r.fState, r.fSource, r.mark, r.elem,
             IF r.ret THEN Append(x.yielded, r.elem) ELSE x.yielded,
             IF r.ret THEN "true" ELSE "false")

\* The constructor of XmlElementIterator over region, or a call of next().
xmlParseTurn(x, region) ==
    IF x.ret = "unconstructed"
    THEN CHOOSE q \in {xmlParseAfter(x, r) :
                          r \in {next(XML_ITERATOR_STATE_CONTENT, region,
                                      region, x.fCurrentElement)}} : TRUE
    ELSE CHOOSE q \in {xmlParseAfter(x, r) :
                          r \in {next(x.fState, x.fSource, x.mark,
                                      x.fCurrentElement)}} : TRUE

\* One step of the parse p with the dispatch map map.
parseTurn(p, map) ==
    IF p.kind = "xml"
    THEN CHOOSE q \in {Stepped([p EXCEPT !.xml = x], map) :
                          x \in {xmlParseTurn(p.xml, p.region)}} : TRUE
    ELSE CHOOSE q \in {Stepped([p EXCEPT !.path = r.parse], r.map) :
                          r \in {parsePathTurn(p.path, map)}} : TRUE

RECURSIVE RunAlone(_, _)
\* The parse p run to its end with nothing else running.
RunAlone(p, map) ==
    IF ~Running(p) THEN p
    ELSE CHOOSE q \in {RunAlone(r.parse, r.map) :
                          r \in {parseTurn(p, map)}} : TRUE

\* The pieces of path data given to parsePath: M10,20, L30,40 50,60, M10,
\* Z and L1 2 3, and the numbers 10 20 before any of them.
ParsePathPieces == {1, 2, 3, 7, 8}

ParsePathDocs(n) ==
    UNION {[1..k -> ParsePathPieces] : k \in 1..n}
        \cup {<<9>> \o d :
                 d \in UNION {[1..k -> ParsePathPieces] : k \in 0..(n - 1)}}

\* The documents of a parse of either kind.
ParseDocs(kind) ==
    IF kind = "xml"
    THEN UNION {[1..k -> XmlPieces] : k \in 1..MaxInterleavedPieces}
    ELSE ParsePathDocs(MaxInterleavedPieces)

ParseBytes(kind, doc) ==
    IF kind = "xml" THEN Concat(doc, Len(doc))
    ELSE PathConcat(doc, Len(doc))

\* Two parses have been set up over their documents; none has taken a
\* step, and parseMap is as its initializer left it.
InterleavedInit ==
    /\ \E k1 \in {"xml", "path"}, k2 \in {"xml", "path"} :
           \E d1 \in ParseDocs(k1), d2 \in ParseDocs(k2) :
               \E b1 \in {ParseBytes(k1, d1)}, b2 \in {ParseBytes(k2, d2)} :
                   /\ buf = b1 \o b2
                   /\ parses =
                          <<Started(k1, d1, Span(1, Len(b1) + 1)),
                            Started(k2, d2,
                                    Span(Len(b1) + 1,
                                         Len(b1) + Len(b2) + 1))>>
    /\ oob = NUL
    /\ parseMap = InitialParseMap
    /\ XmlIdle
    /\ TokIdle
    /\ NumIdle
    /\ PathIdle
    /\ ColIdle
    /\ TrIdle
    /\ UtIdle
    /\ PropIdle
    /\ CssIdle

\* Parse i takes one step.
ParseStep(i) ==
    /\ Running(parses[i])
    /\ \E r \in {parseTurn(parses[i], parseMap)} :
           /\ parses' = [parses EXCEPT ![i] = r.parse]
           /\ parseMap' = r.map
    /\ UNCHANGED <<buf, oob, xmlVars, tokVars, numVars, pathVars, colVars,
                   trVars, utVars, propVars, cssVars>>

\* A caller pulls the next element from its iterator.
XmlParseStep == \E i \in 1..2 : parses[i].kind = "xml" /\ ParseStep(i)

\* A call of parsePath goes through one turn of its loop.
PathParseStep == \E i \in 1..2 : parses[i].kind = "path" /\ ParseStep(i)

InterleavedNext == XmlParseStep \/ PathParseStep

SpecInterleaved == InterleavedInit /\ [][InterleavedNext]_vars

\* What parse i gives when it runs alone from its start.
Alone(i) ==
    RunAlone(Started(parses[i].kind, parses[i].doc, parses[i].region),
             InitialParseMap)

\* C22: two parses that run interleaved, each with its own cursor over its
\* own document, end with what each ends with when it runs alone, and no
\* step of either has written process-wide state: the dispatch map parseMap
\* is as its initializer left it.
C22_InterleavedParsesShareNothing ==
    /\ parseMap = InitialParseMap
    /\ \A i \in 1..2 : ~Running(parses[i]) => parses[i] = Alone(i)

\* Each parse ends with what it ends with alone.
InterleavedResultsAsAlone ==
    \A i \in 1..2 : ~Running(parses[i]) => parses[i] = Alone(i)

\* parseMap is written only by a call of parsePath on path data that starts
\* with a number, and what is written is the key INVALID.
OnlyNumberFirstWritesParseMap ==
    \/ parseMap = InitialParseMap
    \/ /\ DOMAIN parseMap = commandChars \cup {INVALID}
       /\ \E i \in 1..2 : parses[i].kind = "path" /\ parses[i].doc[1] = 9

\* The steps of XML iterators leave parseMap alone.
XmlStepsWriteNothing ==
    (\A i \in 1..2 : parses[i].kind = "xml") => parseMap = InitialParseMap

=============================================================================
